---- MODULE Spec2Model ----
(***************************************************************************)
(* Model of the main backend (src/main.py): profile extraction, cart       *)
(* classification and pickup store selection.                              *)
(*                                                                         *)
(* Python strings on which the code computes (lower, replace, strip,       *)
(* comparison) are sequences of one-character strings.  Strings that the   *)
(* code only passes along are plain TLA+ strings.  An optional value       *)
(* (Python None or a value) is a sequence of length 0 or 1.                *)
(***************************************************************************)
EXTENDS Integers, Sequences, FiniteSets, TLC

VARIABLES
    profileDoc,   \* the profile document handed to extract_allergies_preferences
    wrapDepth,    \* how many containers have been put around the original profile
    expectA,      \* allergy tokens of every "allergies" list put into profileDoc
    expectP,      \* preference tokens of every "preferences" list put into profileDoc
    baseOut,      \* what the extraction returned for the original profile
    extractOut,   \* what the extraction returned for profileDoc, <<>> before the call
    cartReq,      \* the /process-cart request and the data files it reads
    cartResp,     \* the latest /process-cart response, <<>> before the first call
    cartPrev,     \* the response of the call before the latest, <<>> before the second
    PRODUCTS,     \* utils/products.json as loaded at start
    STORES,       \* utils/stores.json as loaded at start, in file order
    pickupReq,    \* the cart sent with every /pickup-suggestion request
    pickupResp,   \* the latest /pickup-suggestion response, <<>> before the first
    pickupPrev,   \* the response of the run before the latest, <<>> before the second
    extractOneLog, \* what fuzzy_process.extractOne returned for the cart's names
    ordersFile,   \* orders.json: <<>> when the file does not exist, else its content
    orderPc,      \* where each /place-order request stands
    orderReq,     \* the body of each worker's latest /place-order request
    orderLocal,   \* the list `orders` each /place-order request holds in memory
    orderResp,    \* each worker's latest /place-order response, <<>> before the first
    orderCount,   \* number of orders built so far
    placed,       \* the orders whose request was answered with success, in that order
    logReadFault, \* has a read of an intact orders.json failed?
    profileFile,  \* profile_001.json: <<>> when the file does not exist, else its text
    postPc,       \* where the POST /profile request stands
    postReq,      \* the latest POST /profile request and the service's reply to it
    postResp,     \* the latest POST /profile response, <<>> before the first
    getResp,      \* the latest GET /profile response, <<>> before the first
    deleteResp,   \* the latest DELETE /profile response, <<>> before the first
    stored,       \* the document of the latest successful POST since the last DELETE
    lastOp,       \* the step of the profile endpoints taken last
    USER_PROFILES, \* QR scanner service: user id -> profile
    qrReq,        \* QR scanner service: the latest /scan-qr/ request, <<>> before the first
    qrResp,       \* QR scanner service: the latest /scan-qr/ response
    updateResp,   \* QR scanner service: the latest /update-user-profile response
    scanReq,      \* main backend: the latest /scan-qr/ request, <<>> before the first
    scanResp,     \* main backend: the latest /scan-qr/ response
    latest_llm_response, \* allergen detector: the stored detection result
    upPc,         \* allergen detector: where each /upload-image/ request stands
    upReq,        \* allergen detector: each worker's latest upload and what was done for it
    upResp,       \* allergen detector: each worker's latest /upload-image/ response
    uploadCount,  \* allergen detector: number of uploads received so far
    completed,    \* allergen detector: the texts of the uploads answered with 200, in that order
    allergensResp, \* allergen detector: the latest /get-allergens/ response
    cart_data,    \* front-end session: the processed cart, <<>> for None
    final_cart,   \* front-end session: the items of the cart under review
    show_cart_review, \* front-end session: is the cart review shown?
    pickup_cart,  \* front-end session: the confirmed cart
    pickup_data,  \* front-end session: the pickup suggestion, <<>> for None
    pickup_order_placed, \* front-end session: has the order been placed?
    order_id,     \* front-end session: the id of the placed order, <<>> for None
    sentOrder     \* front-end: the payload of the latest accepted order, <<>> before the first

vars == <<profileDoc, wrapDepth, expectA, expectP, baseOut, extractOut,
          cartReq, cartResp, cartPrev, PRODUCTS, STORES, pickupReq, pickupResp,
          pickupPrev, extractOneLog,
          ordersFile, orderPc, orderReq, orderLocal, orderResp, orderCount, placed,
          logReadFault,
          profileFile, postPc, postReq, postResp, getResp, deleteResp, stored,
          lastOp,
          USER_PROFILES, qrReq, qrResp, updateResp,
          scanReq, scanResp,
          latest_llm_response, upPc, upReq, upResp, uploadCount, completed,
          allergensResp,
          cart_data, final_cart, show_cart_review, pickup_cart, pickup_data,
          pickup_order_placed, order_id, sentOrder>>

extractVars == <<profileDoc, wrapDepth, expectA, expectP, baseOut, extractOut>>
cartVars == <<cartReq, cartResp, cartPrev>>
pickupVars == <<PRODUCTS, STORES, pickupReq, pickupResp, pickupPrev, extractOneLog>>
orderVars == <<ordersFile, orderPc, orderReq, orderLocal, orderResp, orderCount, placed, logReadFault>>
profileVars == <<profileFile, postPc, postReq, postResp, getResp, deleteResp, stored, lastOp>>
scannerVars == <<USER_PROFILES, qrReq, qrResp, updateResp>>
scanVars == <<scanReq, scanResp>>
detectorVars == <<latest_llm_response, upPc, upReq, upResp, uploadCount, completed, allergensResp>>
sessionVars == <<cart_data, final_cart, show_cart_review, pickup_cart, pickup_data, pickup_order_placed, order_id, sentOrder>>
serviceVars == <<scannerVars, scanVars, detectorVars, sessionVars>>

(***************************************************************************)
(* Bounds of the model.                                                    *)
(***************************************************************************)
MaxDepth == 2
MaxItems == 2
MaxStores == 2
MaxOrders == 2
MaxUploads == 3

None == <<>>
Some(x) == <<x>>

ToSet(seq) == {seq[i] : i \in 1..Len(seq)}

(***************************************************************************)
(* Python str operations, character by character.                          *)
(***************************************************************************)
UpperChars == <<"A","B","C","D","E","F","G","H","I","J","K","L","M",
                "N","O","P","Q","R","S","T","U","V","W","X","Y","Z">>
LowerChars == <<"a","b","c","d","e","f","g","h","i","j","k","l","m",
                "n","o","p","q","r","s","t","u","v","w","x","y","z">>

LowerChar(c) ==
    IF \E i \in 1..Len(UpperChars) : UpperChars[i] = c
    THEN LowerChars[CHOOSE i \in 1..Len(UpperChars) : UpperChars[i] = c]
    ELSE c

\* str.lower()
Lower(s) == [i \in 1..Len(s) |-> LowerChar(s[i])]

StartsWith(s, pat) ==
    /\ Len(pat) <= Len(s)
    /\ SubSeq(s, 1, Len(pat)) = pat

\* str.replace(pat, ""): every non-overlapping occurrence, left to right
RECURSIVE Remove(_, _)
Remove(s, pat) ==
    IF s = <<>> \/ pat = <<>> THEN s
    ELSE IF StartsWith(s, pat)
         THEN Remove(SubSeq(s, Len(pat) + 1, Len(s)), pat)
         ELSE <<Head(s)>> \o Remove(Tail(s), pat)

WhiteSpace == {" ", "\t", "\n"}

\* str.strip()
RECURSIVE LStrip(_)
LStrip(s) == IF s # <<>> /\ Head(s) \in WhiteSpace THEN LStrip(Tail(s)) ELSE s
RECURSIVE RStrip(_)
RStrip(s) ==
    IF s # <<>> /\ s[Len(s)] \in WhiteSpace
    THEN RStrip(SubSeq(s, 1, Len(s) - 1)) ELSE s
Strip(s) == RStrip(LStrip(s))

\* pat in s
IsSubstr(pat, s) ==
    \E i \in 0..(Len(s) - Len(pat)) : SubSeq(s, i + 1, i + Len(pat)) = pat

(***************************************************************************)
(* fuzz.ratio of fuzzywuzzy: 100 * 2M/T rounded, M the size of difflib's   *)
(* matching blocks (longest common block first, then the parts left and    *)
(* right of it), T the two lengths together.                               *)
(***************************************************************************)
\* length of the common block starting at a[i], b[j]
RECURSIVE CommonRun(_, _, _, _)
CommonRun(a, b, i, j) ==
    IF i <= Len(a) /\ j <= Len(b) /\ a[i] = b[j]
    THEN 1 + CommonRun(a, b, i + 1, j + 1) ELSE 0

Max(S) == CHOOSE m \in S : \A n \in S : n <= m
Min(S) == CHOOSE m \in S : \A n \in S : m <= n

RECURSIVE Matches(_, _)
Matches(a, b) ==
    IF a = <<>> \/ b = <<>> THEN 0
    ELSE LET k == Max({CommonRun(a, b, i, j) : i \in 1..Len(a), j \in 1..Len(b)})
         IN  IF k = 0 THEN 0
             ELSE LET i == Min({p \in 1..Len(a) :
                                  \E q \in 1..Len(b) : CommonRun(a, b, p, q) = k})
                      j == Min({q \in 1..Len(b) : CommonRun(a, b, i, q) = k})
                  IN  k + Matches(SubSeq(a, 1, i - 1), SubSeq(b, 1, j - 1))
                        + Matches(SubSeq(a, i + k, Len(a)), SubSeq(b, j + k, Len(b)))

\* int(round(n / d)), round half to even as Python 3 does
RoundDiv(n, d) ==
    LET q == n \div d
        r == n % d
    IN  IF 2 * r > d THEN q + 1
        ELSE IF 2 * r < d THEN q
        ELSE IF q % 2 = 0 THEN q ELSE q + 1

FuzzRatio(a, b) ==
    IF a = b THEN 100
    ELSE IF a = <<>> \/ b = <<>> THEN 0
    ELSE RoundDiv(200 * Matches(a, b), Len(a) + Len(b))

FuzzThreshold == 80

(***************************************************************************)
(* Strings of the model.                                                   *)
(***************************************************************************)
KeyAllergies == <<"a","l","l","e","r","g","i","e","s">>
KeyAllergiesCap == <<"A","l","l","e","r","g","i","e","s">>
KeyPreferences == <<"p","r","e","f","e","r","e","n","c","e","s">>
KeyUser == <<"u","s","e","r">>
KeyDiet == <<"d","i","e","t">>
AllergySuffix == <<" ","a","l","l","e","r","g","y">>

sNut == <<"n","u","t">>
sNutCap == <<"N","u","t">>
sNuts == <<"n","u","t","s">>
sNutAllergy == sNut \o AllergySuffix
sEgg == <<"e","g","g">>
sSoy == <<"s","o","y">>
sTofu == <<"t","o","f","u">>
sMisoCap == <<"M","i","s","o">>
sEggCap == <<"E","g","g">>
sVegan == <<"V","e","g","a","n">>
sPb == <<"p","b">>
sPbCap == <<"P","B">>
sJam == <<"j","a","m">>
sMix == <<"m","i","x">>
sPbj == <<"p","b","j">>
sSkuP1 == <<"P","1">>
sSkuP2 == <<"P","2">>
sSkuP3 == <<"P","3">>

(***************************************************************************)
(* JSON documents: a tagged union of mapping / list / scalar.  A mapping   *)
(* is the sequence of its entries in document order.                       *)
(***************************************************************************)
JStr(s) == [t |-> "str", s |-> s]
JNum(n) == [t |-> "num", n |-> n]
JNull == [t |-> "null"]
JList(items) == [t |-> "list", items |-> items]
JDict(entries) == [t |-> "dict", entries |-> entries]
KV(k, v) == [k |-> k, v |-> v]
JStrList(strs) == JList([i \in 1..Len(strs) |-> JStr(strs[i])])

\* a.lower().replace(" allergy", "").strip()
NormAllergy(s) == Strip(Remove(Lower(s), AllergySuffix))
\* p.lower()
NormPreference(s) == Lower(s)

\* a list whose elements all have .lower(): the update over it does not raise
AllStr(items) == \A i \in 1..Len(items) : items[i].t = "str"

IsAllergiesEntry(e) == Lower(e.k) = KeyAllergies /\ e.v.t = "list"
IsPreferencesEntry(e) == Lower(e.k) = KeyPreferences /\ e.v.t = "list"

\* recurse(obj): what the walk adds to the two sets, or that it raised
ExtractOk(a, p) == [raised |-> FALSE, allergies |-> a, preferences |-> p]
ExtractRaised == [raised |-> TRUE, allergies |-> {}, preferences |-> {}]

RECURSIVE recurse(_)
recurse(obj) ==
    IF obj.t = "dict" THEN
        LET es == obj.entries
            sub == [i \in 1..Len(es) |-> recurse(es[i].v)]
            bad(i) == \/ IsAllergiesEntry(es[i]) /\ ~AllStr(es[i].v.items)
                      \/ IsPreferencesEntry(es[i]) /\ ~AllStr(es[i].v.items)
                      \/ sub[i].raised
            ownA(i) == IF IsAllergiesEntry(es[i])
                       THEN {NormAllergy(es[i].v.items[j].s) : j \in 1..Len(es[i].v.items)}
                       ELSE {}
            ownP(i) == IF IsPreferencesEntry(es[i])
                       THEN {NormPreference(es[i].v.items[j].s) : j \in 1..Len(es[i].v.items)}
                       ELSE {}
        IN  IF \E i \in 1..Len(es) : bad(i) THEN ExtractRaised
            ELSE ExtractOk(UNION {ownA(i) \cup sub[i].allergies : i \in 1..Len(es)},
                           UNION {ownP(i) \cup sub[i].preferences : i \in 1..Len(es)})
    ELSE IF obj.t = "list" THEN
        LET sub == [i \in 1..Len(obj.items) |-> recurse(obj.items[i])]
        IN  IF \E i \in 1..Len(sub) : sub[i].raised THEN ExtractRaised
            ELSE ExtractOk(UNION {sub[i].allergies : i \in 1..Len(sub)},
                           UNION {sub[i].preferences : i \in 1..Len(sub)})
    ELSE ExtractOk({}, {})

\* a reading of the top-level keys only, without the walk into nested containers
extract_top_level(profile) ==
    IF profile.t # "dict" THEN ExtractOk({}, {})
    ELSE LET es == profile.entries
             A == {i \in 1..Len(es) : IsAllergiesEntry(es[i])}
             P == {i \in 1..Len(es) : IsPreferencesEntry(es[i])}
         IN  IF \E i \in A \cup P : ~AllStr(es[i].v.items) THEN ExtractRaised
             ELSE ExtractOk(
                    {NormAllergy(es[i].v.items[j].s) :
                        <<i, j>> \in {<<i, j>> \in A \X (1..3) : j <= Len(es[i].v.items)}},
                    {NormPreference(es[i].v.items[j].s) :
                        <<i, j>> \in {<<i, j>> \in P \X (1..3) : j <= Len(es[i].v.items)}})

extract_allergies_preferences(profile) == recurse(profile)

(***************************************************************************)
(* Profile documents.  Each value that can sit under an "allergies" or     *)
(* "preferences" key comes with the tokens it has to contribute, written   *)
(* out literally.                                                          *)
(***************************************************************************)
AllergyValues ==
    { [v |-> JStrList(<<sNutCap>>), tokens |-> {sNut}],
      [v |-> JStrList(<<sNutAllergy, sEgg>>), tokens |-> {sNut, sEgg}],
      [v |-> JStrList(<<>>), tokens |-> {}],
      [v |-> JStr(sNut), tokens |-> {}],
      [v |-> JNull, tokens |-> {}],
      [v |-> JDict(<<KV(KeyDiet, JStrList(<<sSoy>>))>>), tokens |-> {}],
      [v |-> JList(<<JNum(1)>>), tokens |-> {}],
      [v |-> JList(<<JStr(sNut), JNull>>), tokens |-> {}],
      [v |-> JList(<<JDict(<<>>)>>), tokens |-> {}] }

PreferenceValues ==
    { [v |-> JStrList(<<sVegan>>), tokens |-> {Lower(sVegan)}],
      [v |-> JNum(1), tokens |-> {}],
      [v |-> JList(<<JNum(1)>>), tokens |-> {}] }

\* where the two keys sit in the original profile
ProfileShapes == {"flat", "absent", "nested", "two lists"}

MakeProfile(shape, av, pv) ==
    CASE shape = "flat" ->
           [doc |-> JDict(<<KV(KeyDiet, JStrList(<<sSoy>>)), KV(KeyAllergies, av.v),
                            KV(KeyPreferences, pv.v)>>),
            a |-> av.tokens, p |-> pv.tokens]
      [] shape = "absent" ->
           [doc |-> JDict(<<KV(KeyDiet, JStrList(<<sSoy>>))>>), a |-> {}, p |-> {}]
      [] shape = "nested" ->
           [doc |-> JDict(<<KV(KeyUser, JList(<<JDict(<<KV(KeyAllergiesCap, av.v)>>)>>)),
                            KV(KeyPreferences, pv.v)>>),
            a |-> av.tokens, p |-> pv.tokens]
      [] shape = "two lists" ->
           [doc |-> JDict(<<KV(KeyAllergies, av.v),
                            KV(KeyUser, JDict(<<KV(KeyAllergies, JStrList(<<sSoy>>)),
                                                KV(KeyPreferences, pv.v)>>))>>),
            a |-> av.tokens \cup {sSoy}, p |-> pv.tokens]

\* one more container around a document
Wrappings(doc) ==
    { JDict(<<KV(KeyUser, doc)>>),
      JList(<<doc>>),
      JDict(<<KV(KeyDiet, JStr(sSoy)), KV(KeyUser, JList(<<JNull, doc>>))>>) }

CartIdle == cartReq = None /\ cartResp = None /\ cartPrev = None
PickupIdle ==
    /\ PRODUCTS = <<>> /\ STORES = <<>> /\ pickupReq = None /\ pickupResp = None
    /\ pickupPrev = None /\ extractOneLog = None
Workers == {"w1", "w2"}
OrdersIdle ==
    /\ ordersFile = None /\ orderPc = [w \in Workers |-> "idle"]
    /\ orderReq = [w \in Workers |-> None]
    /\ orderLocal = [w \in Workers |-> [order |-> None, orders |-> <<>>]]
    /\ orderResp = [w \in Workers |-> None] /\ orderCount = 0 /\ placed = <<>>
    /\ logReadFault = FALSE
ScannerIdle ==
    /\ USER_PROFILES = <<>> /\ qrReq = None /\ qrResp = None /\ updateResp = None
ScanIdle == scanReq = None /\ scanResp = None
DetectorIdle ==
    /\ latest_llm_response = "" /\ upPc = [w \in Workers |-> "idle"]
    /\ upReq = [w \in Workers |-> None] /\ upResp = [w \in Workers |-> None]
    /\ uploadCount = 0 /\ completed = <<>> /\ allergensResp = None
SessionIdle ==
    /\ cart_data = None /\ final_cart = <<>> /\ show_cart_review = FALSE
    /\ pickup_cart = <<>> /\ pickup_data = None /\ pickup_order_placed = FALSE
    /\ order_id = None /\ sentOrder = None
ServicesIdle == ScannerIdle /\ ScanIdle /\ DetectorIdle /\ SessionIdle
ProfileIdle ==
    /\ profileFile = None /\ postPc = "idle" /\ postReq = None /\ postResp = None
    /\ getResp = None /\ deleteResp = None /\ stored = None /\ lastOp = "none"
ExtractIdle ==
    /\ profileDoc = JNull /\ wrapDepth = 0 /\ expectA = {} /\ expectP = {}
    /\ baseOut = None /\ extractOut = None

InitExtract ==
    /\ \E shape \in ProfileShapes, av \in AllergyValues, pv \in PreferenceValues :
          LET m == MakeProfile(shape, av, pv)
          IN  profileDoc = m.doc /\ expectA = m.a /\ expectP = m.p
    /\ wrapDepth = 0
    /\ baseOut = None
    /\ extractOut = None
    /\ CartIdle
    /\ PickupIdle
    /\ OrdersIdle
    /\ ProfileIdle
    /\ ServicesIdle

\* a call of extract_allergies_preferences on the current document
Extract ==
    /\ extractOut = None
    /\ extractOut' = Some(extract_allergies_preferences(profileDoc))
    /\ baseOut' = IF wrapDepth = 0 THEN extractOut' ELSE baseOut
    /\ UNCHANGED <<profileDoc, wrapDepth, expectA, expectP>>
    /\ UNCHANGED cartVars
    /\ UNCHANGED pickupVars
    /\ UNCHANGED orderVars
    /\ UNCHANGED profileVars
    /\ UNCHANGED serviceVars

\* the same profile arrives one container deeper
Wrap ==
    /\ wrapDepth < MaxDepth
    /\ baseOut # None
    /\ profileDoc' \in Wrappings(profileDoc)
    /\ wrapDepth' = wrapDepth + 1
    /\ extractOut' = None
    /\ UNCHANGED <<expectA, expectP, baseOut>>
    /\ UNCHANGED cartVars
    /\ UNCHANGED pickupVars
    /\ UNCHANGED orderVars
    /\ UNCHANGED profileVars
    /\ UNCHANGED serviceVars

NextExtract == Extract \/ Wrap

SpecExtract == InitExtract /\ [][NextExtract]_vars

(***************************************************************************)
(* C8: the extraction returns the same allergy set and the same preference *)
(* set at every nesting depth: the result for the profile wrapped in       *)
(* further mappings and lists equals the result for the original profile,  *)
(* and when the walk completes the sets hold exactly the tokens of every   *)
(* "allergies" / "preferences" list of the document.                       *)
(***************************************************************************)
C8_DepthIndependent ==
    (extractOut # None /\ baseOut # None) =>
        LET r == extractOut[1]
            b == baseOut[1]
        IN  /\ r.raised = b.raised
            /\ r.allergies = b.allergies
            /\ r.preferences = b.preferences
            /\ ~r.raised => (r.allergies = expectA /\ r.preferences = expectP)

C8_Witness ==
    /\ wrapDepth = 2
    /\ extractOut # None
    /\ ~extractOut[1].raised
    /\ extractOut[1].allergies = {sNut, sEgg, sSoy}
    /\ extractOut[1].preferences = {Lower(sVegan)}

(***************************************************************************)
(* C9: extract_allergies_preferences never raises, for any JSON-shaped     *)
(* profile.                                                                *)
(***************************************************************************)
C9_NeverRaises == extractOut # None => ~extractOut[1].raised


(***************************************************************************)
(* /process-cart                                                           *)
(***************************************************************************)
KeyName == <<"n","a","m","e">>

\* the data files read by the handler
Product(name, sku, allergens) == [name |-> name, sku |-> sku, allergens |-> allergens]
prodPb == Product(<<"P","b">>, sSkuP1, <<sNut>>)
prodJam == Product(sJam, sSkuP2, <<sNutAllergy>>)
prodMix == Product(sMix, sSkuP3, <<sNuts, sEgg, sMisoCap>>)

Catalogs == { <<>>, <<prodPb, prodJam>>, <<prodMix, prodPb>> }

\* utils/allergens.json: synonym groups, key -> list of allergens
AllergenDicts == { <<>>, <<KV(sSoy, <<sTofu, sMisoCap>>), KV(sNut, <<sNutAllergy>>)>> }

\* utils/substitutions.json: lower-cased item name -> substitution
SubstitutionTables ==
    { <<>>,
      <<KV(sPb, [safeAlt |-> "sunflower seed butter", reason |-> "nut free"]),
        KV(sJam, [safeAlt |-> "honey", reason |-> "no added pectin"])>> }

HasKey(table, k) == \E i \in 1..Len(table) : table[i].k = k
Lookup(table, k) == table[CHOOSE i \in 1..Len(table) : table[i].k = k].v

CartProfiles ==
    { JDict(<<>>),
      JDict(<<KV(KeyAllergies, JStrList(<<sNutCap>>))>>),
      JDict(<<KV(KeyUser, JDict(<<KV(KeyAllergiesCap, JStrList(<<sNutAllergy, sEgg>>)),
                                  KV(KeyPreferences, JStrList(<<<<"P">>>>))>>))>>),
      JDict(<<KV(KeyAllergies, JStrList(<<sSoy>>)),
              KV(KeyPreferences, JStrList(<<sJam, sEggCap>>))>>),
      JDict(<<KV(KeyAllergies, JList(<<JNum(1)>>))>>) }

\* elements a shopping list (or a pickup cart) can hold
ListItems ==
    { JStr(sPbCap), JStr(sPbj), JDict(<<KV(KeyName, JStr(sJam))>>), JNum(1) }

SeqsUpTo(S, n) == UNION {[1..k -> S] : k \in 0..n}

\* the name a list element stands for, or None for an element that is skipped
ItemName(item) ==
    IF item.t = "dict" /\ HasKey(item.entries, KeyName)
    THEN Some(Lookup(item.entries, KeyName).s)
    ELSE IF item.t = "str" THEN Some(item.s)
    ELSE None

\* normalized_list / normalized_cart
RECURSIVE Normalize(_)
Normalize(list) ==
    IF list = <<>> THEN <<>>
    ELSE ItemName(Head(list)) \o Normalize(Tail(list))

\* scores fuzzy_process.extractOne may report
ScoreLevels == {FuzzThreshold - 1, FuzzThreshold, FuzzThreshold + 1}

\* what extractOne(query, choices) may return: None for no choices, else one of
\* the choices and its score
ExtractOneResults(choices) ==
    IF choices = <<>> THEN {None}
    ELSE {Some([best |-> choices[i], score |-> sc]) : i \in 1..Len(choices), sc \in ScoreLevels}

\* the results of extractOne for a set of queries: any in the first call, the
\* same again in a later call
ExtractOneChoices(known, queries, choices) ==
    IF known = None THEN [queries -> ExtractOneResults(choices)] ELSE {known[1]}

\* score > 80
AboveThresholdGE(score) == score >= FuzzThreshold
AboveThreshold(score) == score > FuzzThreshold

\* products = {p["name"].lower(): p ...}: the last product of a name wins
ProductByName(products_list, name) ==
    products_list[Max({i \in 1..Len(products_list) : Lower(products_list[i].name) = name})]
ProductNames(products_list) ==
    [i \in 1..Len(products_list) |-> Lower(products_list[i].name)]

\* an item's exact match, or the fuzzy match eo when there is no exact one;
\* None when nothing is accepted
ResolveProduct(item_lc, products_list, eo) ==
    IF \E i \in 1..Len(products_list) : Lower(products_list[i].name) = item_lc
    THEN Some(ProductByName(products_list, item_lc))
    ELSE IF AboveThreshold(eo[1].score)
         THEN Some(ProductByName(products_list, eo[1].best))
         ELSE None

\* does the lookup of item_lc call extractOne?
NeedsFuzzy(item_lc, products_list) ==
    ~\E i \in 1..Len(products_list) : Lower(products_list[i].name) = item_lc

\* the test of one (allergy, allergen) pair
AllergyMatches(allergy, allergen, allergen_dict) ==
    \/ allergy = Lower(allergen)
    \/ \E i \in 1..Len(allergen_dict) :
          allergy = allergen_dict[i].k /\ Lower(allergen) \in ToSet(allergen_dict[i].v)
    \/ FuzzRatio(allergy, Lower(allergen)) > FuzzThreshold

\* the first matching pair in loop order (allergies outer, allergens inner), or None
FirstMatch(allergyOrder, allergens, allergen_dict) ==
    LET hits == {<<i, j>> \in (1..Len(allergyOrder)) \X (1..Len(allergens)) :
                    AllergyMatches(allergyOrder[i], allergens[j], allergen_dict)}
    IN  IF hits = {} THEN None
        ELSE LET i == Min({h[1] : h \in hits})
                 j == Min({h[2] : h \in {g \in hits : g[1] = i}})
             IN  Some([allergy |-> allergyOrder[i], allergen |-> allergens[j]])

\* for pref in preferences: pref in allergen.lower() for some allergen, or
\* pref in item_lc
PreferenceWarnsAllergensOnly(preferences, allergens, item_lc) ==
    \E pref \in preferences : \E j \in 1..Len(allergens) : IsSubstr(pref, Lower(allergens[j]))
PreferenceWarns(preferences, allergens, item_lc) ==
    \E pref \in preferences :
        \/ IsSubstr(pref, item_lc)
        \/ \E j \in 1..Len(allergens) : IsSubstr(pref, Lower(allergens[j]))

\* the preference loop, which runs for a resolved product that is not flagged
WarnedWithoutProduct(product, flagged, preferences, item_lc) ==
    /\ ~flagged
    /\ PreferenceWarns(preferences, IF product = None THEN <<>> ELSE product[1].allergens,
                       item_lc)
Warned(product, flagged, preferences, item_lc) ==
    /\ product # None
    /\ ~flagged
    /\ PreferenceWarns(preferences, product[1].allergens, item_lc)

\* if flagged and item_lc in substitutions
SubstitutionAppliesAlways(flagged, item_lc, substitutions) == HasKey(substitutions, item_lc)
SubstitutionApplies(flagged, item_lc, substitutions) ==
    flagged /\ HasKey(substitutions, item_lc)

\* the alternative put into an entry that is substituted
SafeAltDropped(substitutions, item_lc) == None
SafeAltOf(substitutions, item_lc) == Some(Lookup(substitutions, item_lc).safeAlt)

ReasonEmpty == [kind |-> "empty"]

\* one pass of the loop body for one item; product and flagged are kept in the
\* entry for the properties below and are not part of the response
ClassifyItem(item, products_list, allergyOrder, preferences, allergen_dict, substitutions, eo) ==
    LET item_lc == Lower(item)
        product == ResolveProduct(item_lc, products_list, eo)
        hit == IF product = None THEN None
               ELSE FirstMatch(allergyOrder, product[1].allergens, allergen_dict)
        flagged == hit # None
        warned == Warned(product, flagged, preferences, item_lc)
        subst == SubstitutionApplies(flagged, item_lc, substitutions)
    IN  [original |-> item,
         status |-> IF subst THEN "Substituted"
                    ELSE IF flagged THEN "Risk"
                    ELSE IF warned THEN "Warn"
                    ELSE "Safe",
         safeAlternative |-> IF subst THEN SafeAltOf(substitutions, item_lc) ELSE None,
         reason |-> IF subst
                    THEN [kind |-> "substitution",
                          text |-> Lookup(substitutions, item_lc).reason]
                    ELSE IF flagged
                    THEN [kind |-> "contains", allergen |-> hit[1].allergen,
                          allergy |-> hit[1].allergy]
                    ELSE IF warned THEN [kind |-> "avoid", item |-> item]
                    ELSE ReasonEmpty,
         product |-> product,
         flagged |-> flagged]

Perms(S) == {f \in [1..Cardinality(S) -> S] : \A i, j \in 1..Cardinality(S) : f[i] = f[j] => i = j}

CartError == [kind |-> "error", status |-> 500]

InitCart ==
    /\ \E list \in SeqsUpTo(ListItems, MaxItems), profile \in CartProfiles,
          products_list \in Catalogs, allergen_dict \in AllergenDicts,
          substitutions \in SubstitutionTables :
          cartReq = Some([shoppingList |-> list, profile |-> profile,
                          products_list |-> products_list,
                          allergen_dict |-> allergen_dict,
                          substitutions |-> substitutions,
                          extractOne |-> None])
    /\ cartResp = None
    /\ cartPrev = None
    /\ ExtractIdle
    /\ PickupIdle
    /\ OrdersIdle
    /\ ProfileIdle
    /\ ServicesIdle

\* the handler of POST /process-cart, from the request to the response; the
\* same request is sent twice.  The order in which the allergy set is walked
\* is chosen in every call (the order of a set of str depends on the hash seed
\* of the process).  What extractOne returns for the names that have no exact
\* match is chosen in the first call and kept in cartReq for the second.
ProcessCart ==
    /\ cartReq # None
    /\ cartPrev = None
    /\ cartPrev' = cartResp
    /\ LET req == cartReq[1]
           shopping_list == Normalize(req.shoppingList)
           ex == extract_allergies_preferences(req.profile)
           names == ProductNames(req.products_list)
           queries == {Lower(shopping_list[i]) : i \in 1..Len(shopping_list)}
           fuzzyQueries == {q \in queries : NeedsFuzzy(q, req.products_list)}
       IN  IF ex.raised
           THEN /\ cartResp' = Some(CartError)
                /\ UNCHANGED cartReq
           ELSE \E eo \in ExtractOneChoices(req.extractOne, fuzzyQueries, names),
                   allergyOrder \in Perms(ex.allergies) :
                  /\ cartReq' = Some([req EXCEPT !.extractOne = Some(eo)])
                  /\ cartResp' =
                       IF \E q \in fuzzyQueries : eo[q] = None
                       THEN Some(CartError)
                       ELSE Some([kind |-> "ok",
                                  cart |-> [i \in 1..Len(shopping_list) |->
                                     ClassifyItem(shopping_list[i], req.products_list,
                                        allergyOrder, ex.preferences, req.allergen_dict,
                                        req.substitutions,
                                        IF Lower(shopping_list[i]) \in fuzzyQueries
                                        THEN eo[Lower(shopping_list[i])] ELSE None)]])
    /\ UNCHANGED extractVars
    /\ UNCHANGED pickupVars
    /\ UNCHANGED orderVars
    /\ UNCHANGED profileVars
    /\ UNCHANGED serviceVars

NextCart == ProcessCart

SpecCart == InitCart /\ [][NextCart]_vars


(***************************************************************************)
(* /pickup-suggestion                                                      *)
(***************************************************************************)
\* utils/stores.json: store name -> availableSKUs, in file order.  The i-th
\* store of the file is named StoreNames[i].
StoreNames == <<"Store A", "Store B", "Store C", "Store D">>
StockSets == {{sSkuP1}, {sSkuP2}, {sSkuP1, sSkuP2}}
StoreFiles ==
    UNION {{[i \in 1..n |-> [name |-> StoreNames[i], availableSKUs |-> f[i]]] :
               f \in [1..n -> StockSets]} : n \in 0..MaxStores}

PickupCatalogs == { <<>>, <<prodPb, prodJam>> }

\* elements of a pickup cart: SKUs, a named item, a name close to a product's
PickupItems ==
    { JStr(sSkuP1), JStr(sSkuP2), JDict(<<KV(KeyName, JStr(sPbCap))>>), JStr(sPbj) }

\* the random pickup code (8 characters; two of them stand for all)
PickupCodes == {"K7Q2M9XA", "ZZ31BC0D"}

\* sku_to_product and name_to_sku, both built at start: the last product wins
IsSku(products, sku) == \E i \in 1..Len(products) : products[i].sku = sku
IsName(products, name) == \E i \in 1..Len(products) : Lower(products[i].name) = name
NameToSku(products, name) == ProductByName(products, name).sku
\* list(name_to_sku.keys()): every name once, in order of first appearance
NameKeys(products) ==
    LET names == ProductNames(products)
    IN  SelectSeq([i \in 1..Len(names) |-> [n |-> names[i], first |-> \A k \in 1..(i - 1) : names[k] # names[i]]],
                  LAMBDA r : r.first)

\* does the lookup of a cart item call extractOne?
PickupNeedsFuzzy(products, item) == ~IsSku(products, item) /\ ~IsName(products, Lower(item))

\* the SKU a cart item stands for: by SKU, by exact lower-cased name, by the
\* fuzzy match eo; None for an item that is not found
ResolveSku(products, item, eo) ==
    IF IsSku(products, item) THEN Some(item)
    ELSE IF IsName(products, Lower(item)) THEN Some(NameToSku(products, Lower(item)))
    ELSE IF AboveThreshold(eo[1].score) THEN Some(NameToSku(products, eo[1].best))
    ELSE None

\* [sku for sku in cart_skus if sku in available] and its complement
Stocked(cart_skus, available) == SelectSeq(cart_skus, LAMBDA sku : sku \in available)
NotStocked(cart_skus, available) == SelectSeq(cart_skus, LAMBDA sku : sku \notin available)

\* the loop over STORES.items() from store i on, with the best seen so far
RECURSIVE BestStoreFrom(_, _, _, _)
BestStoreFrom(stores, cart_skus, i, best) ==
    IF i > Len(stores) THEN best
    ELSE LET packed_here == Stocked(cart_skus, stores[i].availableSKUs)
         IN  BestStoreFrom(stores, cart_skus, i + 1,
                IF Len(packed_here) > best.count
                THEN [store |-> Some(stores[i].name), count |-> Len(packed_here),
                      packed |-> packed_here]
                ELSE best)

NoStoreYet == [store |-> None, count |-> -1, packed |-> <<>>]

\* a loop in which a later store with the same count replaces the best
RECURSIVE BestStoreLastWins(_, _, _, _)
BestStoreLastWins(stores, cart_skus, i, best) ==
    IF i > Len(stores) THEN best
    ELSE LET packed_here == Stocked(cart_skus, stores[i].availableSKUs)
         IN  BestStoreLastWins(stores, cart_skus, i + 1,
                IF Len(packed_here) >= best.count
                THEN [store |-> Some(stores[i].name), count |-> Len(packed_here),
                      packed |-> packed_here]
                ELSE best)

\* a selection that depends on the previous answer: on a tie it prefers a store
\* other than the one chosen last time
FindBestStoreAlternating(stores, cart_skus) ==
    LET first == BestStoreFrom(stores, cart_skus, 1, NoStoreYet)
        last == BestStoreLastWins(stores, cart_skus, 1, NoStoreYet)
    IN  IF pickupResp # None /\ pickupResp[1].kind = "ok" /\ pickupResp[1].store = first.store
        THEN last ELSE first

FindBestStoreLastWins(stores, cart_skus) == BestStoreLastWins(stores, cart_skus, 1, NoStoreYet)

FindBestStore(stores, cart_skus) == BestStoreFrom(stores, cart_skus, 1, NoStoreYet)

StoreByName(stores, name) == stores[CHOOSE i \in 1..Len(stores) : stores[i].name = name]

\* if best_store: (None and the empty name are both false)
Truthy(opt) == opt # None /\ opt[1] # ""

\* missing, computed against the chosen store
MissingAll(stores, cart_skus, best_store) == cart_skus
MissingSkus(stores, cart_skus, best_store) ==
    IF Truthy(best_store)
    THEN NotStocked(cart_skus, StoreByName(stores, best_store[1]).availableSKUs)
    ELSE cart_skus

ProductBySku(products, sku) ==
    products[Max({i \in 1..Len(products) : products[i].sku = sku})]

\* the first store other than best_store that stocks sku, or None
NearestStore(stores, best_store, sku) ==
    LET others == {i \in 1..Len(stores) :
                      /\ Some(stores[i].name) # best_store
                      /\ sku \in stores[i].availableSKUs}
    IN  IF others = {} THEN None ELSE Some(stores[Min(others)].name)

\* nearest_stores_for_missing: product name -> store, for the missing items
\* that another store stocks (a later item of the same name overwrites)
NearestStores(products, stores, best_store, missing) ==
    LET found == {i \in 1..Len(missing) : NearestStore(stores, best_store, missing[i]) # None}
        names == {ProductBySku(products, missing[i]).name : i \in found}
    IN  [n \in names |->
            NearestStore(stores, best_store,
               missing[Max({i \in found : ProductBySku(products, missing[i]).name = n})])[1]]

\* not_found_items: the items that resolved to nothing, in cart order
NotFoundAll(names, resolved) == names
NotFoundItems(names, resolved) ==
    LET lost == SelectSeq([i \in 1..Len(names) |-> [name |-> names[i], r |-> resolved[i]]],
                          LAMBDA x : x.r = None)
    IN  [i \in 1..Len(lost) |-> lost[i].name]

PickupError(status) == [kind |-> "error", status |-> status]

\* the response for a cart, given what extractOne returned and the code drawn;
\* cart_skus and resolved are kept for the properties below and are not part
\* of the response
PickupAnswer(products, stores, cart, eo, code) ==
    LET names == Normalize(cart)
        resolved == [i \in 1..Len(names) |->
                        ResolveSku(products, names[i],
                           IF PickupNeedsFuzzy(products, names[i]) THEN eo[names[i]] ELSE None)]
        found == SelectSeq([i \in 1..Len(names) |-> resolved[i]], LAMBDA r : r # None)
        cart_skus == [i \in 1..Len(found) |-> found[i][1]]
        best == FindBestStore(stores, cart_skus)
        missing == MissingSkus(stores, cart_skus, best.store)
    IN  [kind |-> "ok",
         store |-> IF Truthy(best.store) THEN best.store ELSE None,
         packed_items |-> best.packed,
         missing_items |-> missing,
         not_found_items |-> NotFoundItems(names, resolved),
         pickup_code |-> code,
         nearest_stores_for_missing |-> NearestStores(products, stores, best.store, missing),
         cart_skus |-> cart_skus,
         resolved |-> resolved]

InitPickup ==
    /\ PRODUCTS \in PickupCatalogs
    /\ STORES \in StoreFiles
    /\ pickupReq \in {Some(c) : c \in SeqsUpTo(PickupItems, MaxItems)}
    /\ pickupResp = None
    /\ pickupPrev = None
    /\ extractOneLog = None
    /\ ExtractIdle
    /\ CartIdle
    /\ OrdersIdle
    /\ ProfileIdle
    /\ ServicesIdle

\* the handler of POST /pickup-suggestion for the cart pickupReq.  extractOne
\* is a function of its arguments: what it returned in an earlier run it
\* returns again.  The pickup code is drawn anew in every run.
PickupSuggestion ==
    /\ pickupReq # None
    /\ LET cart == pickupReq[1]
           names == Normalize(cart)
           fuzzyQueries == {q \in ToSet(names) : PickupNeedsFuzzy(PRODUCTS, q)}
           choices == [i \in 1..Len(NameKeys(PRODUCTS)) |-> NameKeys(PRODUCTS)[i].n]
       IN  IF cart = <<>>
           THEN /\ pickupResp' = Some(PickupError(400))
                /\ UNCHANGED extractOneLog
           ELSE \E eo \in [fuzzyQueries -> ExtractOneResults(choices)], code \in PickupCodes :
                  /\ extractOneLog # None => eo = extractOneLog[1]
                  /\ extractOneLog' = Some(eo)
                  /\ pickupResp' =
                       IF \E q \in fuzzyQueries : eo[q] = None
                       THEN Some(PickupError(500))
                       ELSE Some(PickupAnswer(PRODUCTS, STORES, cart, eo, code))
    /\ pickupPrev' = pickupResp
    /\ UNCHANGED <<PRODUCTS, STORES, pickupReq>>
    /\ UNCHANGED extractVars
    /\ UNCHANGED cartVars
    /\ UNCHANGED orderVars
    /\ UNCHANGED profileVars
    /\ UNCHANGED serviceVars

NextPickup == PickupSuggestion

SpecPickup == InitPickup /\ [][NextPickup]_vars

\* both handlers that resolve names
SpecResolve == (InitCart \/ InitPickup) /\ [][NextCart \/ NextPickup]_vars

(***************************************************************************)
(* Properties of /process-cart.                                            *)
(***************************************************************************)
CartAnswered == cartResp # None /\ cartResp[1].kind = "ok"
CartNames == Normalize(cartReq[1].shoppingList)
CartEntries == cartResp[1].cart
CartIndices == 1..Len(CartEntries)

\* the strings of every "allergies" list of a document, as written in it
RECURSIVE RawAllergyStrings(_)
RawAllergyStrings(obj) ==
    IF obj.t = "dict" THEN
        UNION {(IF IsAllergiesEntry(obj.entries[i]) /\ AllStr(obj.entries[i].v.items)
                THEN {obj.entries[i].v.items[j].s : j \in 1..Len(obj.entries[i].v.items)}
                ELSE {})
               \cup RawAllergyStrings(obj.entries[i].v) : i \in 1..Len(obj.entries)}
    ELSE IF obj.t = "list" THEN
        UNION {RawAllergyStrings(obj.items[i]) : i \in 1..Len(obj.items)}
    ELSE {}

\* the item has no exact match and extractOne's best score is not above 80
Unresolved(i) ==
    /\ ~\E k \in 1..Len(cartReq[1].products_list) :
          Lower(cartReq[1].products_list[k].name) = Lower(CartNames[i])
    /\ cartReq[1].extractOne # None
    /\ cartReq[1].extractOne[1][Lower(CartNames[i])] # None
    /\ cartReq[1].extractOne[1][Lower(CartNames[i])][1].score <= 80

(***************************************************************************)
(* C1: every item that resolves to a product one of whose allergens is     *)
(* exactly equal to a profile allergy string is flagged Risk: its status   *)
(* is Risk or Substituted, never Safe or Warn.                             *)
(***************************************************************************)
C1_ExactAllergenIsRisk ==
    CartAnswered =>
        \A i \in CartIndices :
            (/\ CartEntries[i].product # None
             /\ \E a \in RawAllergyStrings(cartReq[1].profile) :
                   a \in ToSet(CartEntries[i].product[1].allergens))
            => CartEntries[i].status \in {"Risk", "Substituted"}

(***************************************************************************)
(* C2: fail-open.  An item whose lower-cased name is no catalog name and   *)
(* whose best fuzzy score is not above 80 gets an entry with status Safe,  *)
(* no safe alternative and an empty reason, whatever the allergies, the    *)
(* preferences and the substitution table.                                 *)
(***************************************************************************)
C2_FailOpen ==
    cartResp # None =>
        \A i \in 1..Len(CartNames) :
            Unresolved(i) =>
                /\ cartResp[1].kind = "ok"
                /\ CartEntries[i].original = CartNames[i]
                /\ CartEntries[i].status = "Safe"
                /\ CartEntries[i].safeAlternative = None
                /\ CartEntries[i].reason = ReasonEmpty

\* an unresolved "jam" that is a key of the substitution table and contains a
\* preference token, for a profile with an allergy
C2_Witness ==
    /\ CartAnswered
    /\ \E i \in CartIndices :
          /\ Unresolved(i)
          /\ CartNames[i] = sJam
          /\ HasKey(cartReq[1].substitutions, sJam)
          /\ sJam \in extract_allergies_preferences(cartReq[1].profile).preferences
          /\ extract_allergies_preferences(cartReq[1].profile).allergies # {}
          /\ cartReq[1].extractOne[1][sJam][1].score = 80
          /\ CartEntries[i].status = "Safe"

(***************************************************************************)
(* C3: an entry is Substituted if and only if the item was flagged Risk    *)
(* and its lower-cased name is a key of the substitution table; a flagged  *)
(* item whose name is no key stays Risk.                                   *)
(***************************************************************************)
C3_SubstitutedIff ==
    CartAnswered =>
        \A i \in CartIndices :
            LET isKey == HasKey(cartReq[1].substitutions, Lower(CartNames[i]))
                e == CartEntries[i]
            IN  /\ e.status = "Substituted" <=> (e.flagged /\ isKey)
                /\ (e.flagged /\ ~isKey) => e.status = "Risk"
                /\ (e.flagged /\ isKey) =>
                      e.safeAlternative =
                         Some(Lookup(cartReq[1].substitutions, Lower(CartNames[i])).safeAlt)

\* "PB" is flagged and a key (Substituted with the table's alternative, as in
\* the example of the specification); "pbj" is flagged through its fuzzy match
\* and is no key (Risk)
C3_Witness ==
    /\ CartAnswered
    /\ Len(CartEntries) = 2
    /\ CartEntries[1].original = sPbCap
    /\ CartEntries[1].status = "Substituted"
    /\ CartEntries[1].safeAlternative = Some("sunflower seed butter")
    /\ CartEntries[2].original = sPbj
    /\ CartEntries[2].flagged
    /\ CartEntries[2].status = "Risk"

(***************************************************************************)
(* C4: every returned entry with status Substituted has a safe             *)
(* alternative, and every entry with status Safe, Warn or Risk has none.   *)
(***************************************************************************)
C4_AlternativeIffSubstituted ==
    CartAnswered =>
        \A i \in CartIndices :
            /\ CartEntries[i].status \in {"Safe", "Warn", "Risk", "Substituted"}
            /\ CartEntries[i].status = "Substituted" <=> CartEntries[i].safeAlternative # None

C4_Witness ==
    /\ CartAnswered
    /\ {CartEntries[i].status : i \in CartIndices} = {"Substituted", "Warn"}
    /\ \A i \in CartIndices : CartEntries[i].status = "Warn" => CartEntries[i].product # None


(***************************************************************************)
(* Properties of /pickup-suggestion.                                       *)
(***************************************************************************)
PickupAnswered == pickupResp # None /\ pickupResp[1].kind = "ok"

\* number of resolved cart SKUs that the k-th store stocks
InStock(k) ==
    Cardinality({i \in 1..Len(pickupResp[1].cart_skus) :
                    pickupResp[1].cart_skus[i] \in STORES[k].availableSKUs})

ChosenIndex == CHOOSE k \in 1..Len(STORES) : Some(STORES[k].name) = pickupResp[1].store

(***************************************************************************)
(* C5: the chosen store has the maximum number of in-stock cart SKUs and   *)
(* is the first store of the file with that number; no store is returned   *)
(* only when there are no stores.                                          *)
(***************************************************************************)
C5_FirstBestStore ==
    PickupAnswered =>
        /\ pickupResp[1].store = None <=> STORES = <<>>
        /\ pickupResp[1].store # None =>
              /\ \E k \in 1..Len(STORES) : Some(STORES[k].name) = pickupResp[1].store
              /\ \A k \in 1..Len(STORES) : InStock(k) <= InStock(ChosenIndex)
              /\ \A k \in 1..(ChosenIndex - 1) : InStock(k) < InStock(ChosenIndex)

\* the example of the specification: A = {P1, P2}, B = {P1}, cart [P1, P2]
C5_Witness ==
    /\ PickupAnswered
    /\ Len(STORES) = 2
    /\ STORES[1].availableSKUs = {sSkuP1, sSkuP2}
    /\ STORES[2].availableSKUs = {sSkuP1}
    /\ pickupReq = Some(<<JStr(sSkuP1), JStr(sSkuP2)>>)
    /\ pickupResp[1].store = Some("Store A")
    /\ pickupResp[1].missing_items = <<>>

(***************************************************************************)
(* C6: packed and missing SKUs are disjoint and together are exactly the   *)
(* resolved cart SKUs; a resolved SKU is packed when the chosen store      *)
(* stocks it and missing otherwise, also when there is no store.           *)
(***************************************************************************)
C6_PackedMissingPartition ==
    PickupAnswered =>
        LET r == pickupResp[1]
            stock == IF r.store = None THEN {} ELSE STORES[ChosenIndex].availableSKUs
        IN  /\ ToSet(r.packed_items) \cap ToSet(r.missing_items) = {}
            /\ ToSet(r.packed_items) \cup ToSet(r.missing_items) = ToSet(r.cart_skus)
            /\ Len(r.packed_items) + Len(r.missing_items) = Len(r.cart_skus)
            /\ \A sku \in ToSet(r.cart_skus) :
                  sku \in ToSet(r.packed_items) <=> sku \in stock

C6_Witness ==
    /\ PickupAnswered
    /\ pickupResp[1].store # None
    /\ pickupResp[1].packed_items # <<>>
    /\ pickupResp[1].missing_items # <<>>

C10_CartResolution ==
    CartAnswered =>
        \A i \in CartIndices :
            LET q == Lower(CartNames[i])
                cat == cartReq[1].products_list
                eo == cartReq[1].extractOne[1]
            IN  IF \E k \in 1..Len(cat) : Lower(cat[k].name) = q
                THEN /\ q \notin DOMAIN eo
                     /\ CartEntries[i].product # None
                     /\ Lower(CartEntries[i].product[1].name) = q
                ELSE /\ q \in DOMAIN eo
                     /\ eo[q][1].score > 80 =>
                           /\ CartEntries[i].product # None
                           /\ Lower(CartEntries[i].product[1].name) = eo[q][1].best
                     /\ eo[q][1].score <= 80 => CartEntries[i].product = None

C10_PickupResolution ==
    PickupAnswered =>
        LET names == Normalize(pickupReq[1])
            eo == extractOneLog[1]
            skuOf(n) == PRODUCTS[CHOOSE k \in 1..Len(PRODUCTS) : Lower(PRODUCTS[k].name) = n].sku
        IN  \A i \in 1..Len(names) :
                LET q == names[i]
                IN  IF \E k \in 1..Len(PRODUCTS) : PRODUCTS[k].sku = q
                    THEN q \notin DOMAIN eo /\ pickupResp[1].resolved[i] = Some(q)
                    ELSE IF \E k \in 1..Len(PRODUCTS) : Lower(PRODUCTS[k].name) = Lower(q)
                    THEN /\ q \notin DOMAIN eo
                         /\ pickupResp[1].resolved[i] = Some(skuOf(Lower(q)))
                    ELSE /\ q \in DOMAIN eo
                         /\ eo[q][1].score > 80 =>
                               pickupResp[1].resolved[i] = Some(skuOf(eo[q][1].best))
                         /\ eo[q][1].score <= 80 => pickupResp[1].resolved[i] = None

C10_NameResolution == C10_CartResolution /\ C10_PickupResolution

\* "PB" is taken by its exact match and "pbj", whose best score is exactly 80,
\* resolves to nothing
C10_Witness ==
    /\ CartAnswered
    /\ Len(CartEntries) = 2
    /\ CartEntries[1].original = sPbCap
    /\ CartEntries[1].product = Some(prodPb)
    /\ CartEntries[2].original = sPbj
    /\ cartReq[1].extractOne[1][sPbj][1].score = 80
    /\ CartEntries[2].product = None


(***************************************************************************)
(* Further properties of /process-cart.                                    *)
(***************************************************************************)
CartAllergies == extract_allergies_preferences(cartReq[1].profile).allergies
CartPreferences == extract_allergies_preferences(cartReq[1].profile).preferences

(***************************************************************************)
(* C11: a resolved item is flagged exactly when some (allergy, allergen)   *)
(* pair is equal, or the allergy is a key of the synonym table whose list  *)
(* holds the allergen, or the pair's fuzzy ratio is above 80; and every    *)
(* allergy that is a key of the synonym table flags every product that     *)
(* carries one of the allergens listed under that key.                     *)
(***************************************************************************)
C11_SynonymFlags ==
    CartAnswered =>
        \A i \in CartIndices :
            CartEntries[i].product # None =>
                LET allergens == CartEntries[i].product[1].allergens
                    dict == cartReq[1].allergen_dict
                    isRisk == CartEntries[i].status \in {"Risk", "Substituted"}
                IN  /\ isRisk <=>
                          \E allergy \in CartAllergies, j \in 1..Len(allergens) :
                              \/ allergy = Lower(allergens[j])
                              \/ \E k \in 1..Len(dict) :
                                    /\ dict[k].k = allergy
                                    /\ Lower(allergens[j]) \in ToSet(dict[k].v)
                              \/ FuzzRatio(allergy, Lower(allergens[j])) > FuzzThreshold
                    /\ \A k \in 1..Len(dict), j \in 1..Len(allergens) :
                          (dict[k].k \in CartAllergies /\ allergens[j] \in ToSet(dict[k].v))
                          => isRisk

(***************************************************************************)
(* C12: a resolved item that is not flagged is Warn exactly when some      *)
(* preference token is a substring of one of the product's allergens or of *)
(* the lower-cased item name, and Safe otherwise; a flagged item is never  *)
(* Warn.                                                                   *)
(***************************************************************************)
C12_WarnIffPreference ==
    CartAnswered =>
        \A i \in CartIndices :
            CartEntries[i].product # None =>
                LET e == CartEntries[i]
                    allergens == e.product[1].allergens
                    prefHit == \E pref \in CartPreferences :
                                  \/ IsSubstr(pref, Lower(e.original))
                                  \/ \E j \in 1..Len(allergens) :
                                        IsSubstr(pref, Lower(allergens[j]))
                IN  /\ ~e.flagged => e.status = (IF prefHit THEN "Warn" ELSE "Safe")
                    /\ e.flagged => e.status \in {"Risk", "Substituted"}

\* "PB" is flagged and holds the preference "p" (it is not Warn); "pbj" resolves
\* through its fuzzy match to a product that is not flagged, no allergen of
\* which holds "p", and is Warn through its name
C12_Witness ==
    /\ CartAnswered
    /\ Len(CartEntries) = 2
    /\ CartPreferences = {<<"p">>}
    /\ CartEntries[1].original = sPbCap
    /\ CartEntries[1].flagged
    /\ CartEntries[1].status = "Risk"
    /\ CartEntries[2].original = sPbj
    /\ CartEntries[2].product = Some(prodJam)
    /\ ~CartEntries[2].flagged
    /\ CartEntries[2].status = "Warn"

\* a product that is not flagged is Warn through one of its allergens only
C12_WitnessAllergen ==
    /\ CartAnswered
    /\ \E i \in CartIndices :
          /\ CartEntries[i].product = Some(prodMix)
          /\ CartEntries[i].status = "Warn"
          /\ ~\E pref \in CartPreferences : IsSubstr(pref, Lower(CartEntries[i].original))

(***************************************************************************)
(* C13: two process_cart calls with the same shopping list, profile,       *)
(* catalog, synonym table and substitution table return identical entries  *)
(* (status, safe alternative and reason), whatever the order in which the  *)
(* allergy set and the preference set are walked.                          *)
(***************************************************************************)
C13_SameEntries ==
    (cartPrev # None /\ cartResp # None) => cartResp = cartPrev

\* the part of C13 that the code keeps: status and safe alternative repeat
C13_SameStatus ==
    (cartPrev # None /\ cartResp # None) =>
        /\ cartResp[1].kind = cartPrev[1].kind
        /\ cartResp[1].kind = "ok" =>
              /\ Len(cartResp[1].cart) = Len(cartPrev[1].cart)
              /\ \A i \in CartIndices :
                    /\ CartEntries[i].status = cartPrev[1].cart[i].status
                    /\ CartEntries[i].safeAlternative = cartPrev[1].cart[i].safeAlternative

(***************************************************************************)
(* C14: an item that does not resolve never aborts the request: whenever   *)
(* the profile can be read, the response holds exactly one entry for every *)
(* string or named item of the shopping list, in list order, for every     *)
(* catalog, the empty catalog included.                                    *)
(***************************************************************************)
C14_OneEntryPerItem ==
    (cartResp # None /\ ~extract_allergies_preferences(cartReq[1].profile).raised) =>
        /\ cartResp[1].kind = "ok"
        /\ Len(CartEntries) = Len(CartNames)
        /\ \A i \in CartIndices : CartEntries[i].original = CartNames[i]


(***************************************************************************)
(* /place-order                                                            *)
(*                                                                         *)
(* The handler is followed statement by statement where it touches         *)
(* orders.json: the read of the log, the open for writing (which empties   *)
(* the file) and the dump.  Every worker handles one request at a time.    *)
(***************************************************************************)
\* order ids: ''.join(random.choices(...)); nothing keeps two ids apart
OrderIds == {"A1B2C3D4E5", "Z9Y8X7W6V5"}

\* request bodies: cart, store and pickup_code present or not; quantities and
\* profile are copied into the order as they are
OrderBody(cart, store, pickup_code) ==
    [cart |-> cart, quantities |-> "quantities", store |-> store,
     pickup_code |-> pickup_code, profile |-> "profile"]
OrderRequests ==
    { OrderBody(<<sSkuP1>>, Some("Store A"), Some("K7Q2M9XA")),
      OrderBody(<<>>, Some("Store A"), Some("K7Q2M9XA")),
      OrderBody(<<sSkuP1>>, None, Some("K7Q2M9XA")),
      OrderBody(<<sSkuP1>>, Some("Store A"), None),
      OrderBody(<<sSkuP1>>, Some("Store A"), Some("")) }

\* if not cart or not store or not pickup_code
MissingOrderFieldsNoCode(req) == req.cart = <<>> \/ req.store = None
MissingOrderFields(req) ==
    req.cart = <<>> \/ req.store = None \/ ~Truthy(req.pickup_code)

\* the order record; n numbers the orders in the order they are built and is
\* not part of the record that is stored
Order(req, id, n) ==
    [order_id |-> id, cart |-> req.cart, quantities |-> req.quantities,
     store |-> req.store, pickup_code |-> req.pickup_code,
     profile |-> req.profile, n |-> n]

OrderRejected ==
    [status |-> 400, error |-> Some("Missing required order fields."), order_id |-> None]
OrderSaveFailed ==
    [status |-> 500, error |-> Some("Failed to save order."), order_id |-> None]
OrderPlaced(order) ==
    [status |-> 200, error |-> None, order_id |-> Some(order.order_id)]

\* contents of orders.json: a list of orders, or text that json.load rejects
\* (the file as open(.., "w") leaves it, or as two overlapping dumps leave it)
LogOf(orders) == Some([intact |-> TRUE, orders |-> orders])
LogBroken == Some([intact |-> FALSE, orders |-> <<>>])

InitOrders ==
    /\ OrdersIdle
    /\ ExtractIdle
    /\ CartIdle
    /\ PickupIdle
    /\ ProfileIdle
    /\ ServicesIdle

\* from the request to the order record, or to the 400 answer
PlaceOrderBegin(w) ==
    /\ orderPc[w] \in {"idle", "done"}
    /\ \E req \in OrderRequests :
          /\ orderReq' = [orderReq EXCEPT ![w] = Some(req)]
          /\ IF MissingOrderFields(req)
             THEN /\ orderResp' = [orderResp EXCEPT ![w] = Some(OrderRejected)]
                  /\ orderPc' = [orderPc EXCEPT ![w] = "done"]
                  /\ orderLocal' = [orderLocal EXCEPT ![w] = [order |-> None, orders |-> <<>>]]
                  /\ UNCHANGED orderCount
             ELSE /\ orderCount < MaxOrders
                  /\ \E id \in OrderIds :
                        orderLocal' = [orderLocal EXCEPT ![w] =
                            [order |-> Some(Order(req, id, orderCount + 1)), orders |-> <<>>]]
                  /\ orderCount' = orderCount + 1
                  /\ orderResp' = [orderResp EXCEPT ![w] = None]
                  /\ orderPc' = [orderPc EXCEPT ![w] = "read"]
    /\ UNCHANGED <<ordersFile, placed, logReadFault>>
    /\ UNCHANGED <<extractVars, cartVars, pickupVars, profileVars, serviceVars>>

\* orders = json.load(f) if the file exists, [] if it does not or if the read
\* raises; then orders.append(order).  The read raises for text that is no
\* JSON and may raise for an intact file (fault).
ReadLog(w) ==
    /\ orderPc[w] = "read"
    /\ \E fault \in BOOLEAN :
          /\ fault => (ordersFile # None /\ ordersFile[1].intact)
          /\ LET readable == ordersFile # None /\ ordersFile[1].intact /\ ~fault
                 orders == IF readable THEN ordersFile[1].orders ELSE <<>>
             IN  orderLocal' = [orderLocal EXCEPT ![w].orders =
                                    Append(orders, orderLocal[w].order[1])]
          /\ logReadFault' = (logReadFault \/ fault)
    /\ orderPc' = [orderPc EXCEPT ![w] = "open"]
    /\ UNCHANGED <<ordersFile, orderReq, orderResp, orderCount, placed>>
    /\ UNCHANGED <<extractVars, cartVars, pickupVars, profileVars, serviceVars>>

\* open(orders_path, "w"): empties the file, or raises and leaves it alone
OpenLog(w) ==
    /\ orderPc[w] = "open"
    /\ \E opened \in BOOLEAN :
          IF opened
          THEN /\ ordersFile' = LogBroken
               /\ orderPc' = [orderPc EXCEPT ![w] = "dump"]
               /\ UNCHANGED orderResp
          ELSE /\ orderResp' = [orderResp EXCEPT ![w] = Some(OrderSaveFailed)]
               /\ orderPc' = [orderPc EXCEPT ![w] = "done"]
               /\ UNCHANGED ordersFile
    /\ UNCHANGED <<orderReq, orderLocal, orderCount, placed, logReadFault>>
    /\ UNCHANGED <<extractVars, cartVars, pickupVars, profileVars, serviceVars>>

\* what the file holds after this dump: the dumped list; or, when another
\* request has written the file since this one opened it, possibly the dumped
\* text followed by the rest of the longer text of the other
DumpOutcomes(file, orders) ==
    IF file # None /\ file[1].intact THEN {LogOf(orders), LogBroken} ELSE {LogOf(orders)}

\* json.dump(orders, f, indent=2), close, and the success answer
DumpLog(w) ==
    /\ orderPc[w] = "dump"
    /\ ordersFile' \in DumpOutcomes(ordersFile, orderLocal[w].orders)
    /\ orderResp' = [orderResp EXCEPT ![w] = Some(OrderPlaced(orderLocal[w].order[1]))]
    /\ placed' = Append(placed, orderLocal[w].order[1])
    /\ orderPc' = [orderPc EXCEPT ![w] = "done"]
    /\ UNCHANGED <<orderReq, orderLocal, orderCount, logReadFault>>
    /\ UNCHANGED <<extractVars, cartVars, pickupVars, profileVars, serviceVars>>

\* requests handled one at a time: a request is taken up when no other is
\* under way
NoOrderUnderWay == \A w \in Workers : orderPc[w] \in {"idle", "done"}
PlaceOrderBeginSerial(w) == NoOrderUnderWay /\ PlaceOrderBegin(w)

NextOrdersSerial ==
    \E w \in Workers : PlaceOrderBeginSerial(w) \/ ReadLog(w) \/ OpenLog(w) \/ DumpLog(w)
NextOrders ==
    \E w \in Workers : PlaceOrderBegin(w) \/ ReadLog(w) \/ OpenLog(w) \/ DumpLog(w)

SpecOrdersSerial == InitOrders /\ [][NextOrdersSerial]_vars
SpecOrders == InitOrders /\ [][NextOrders]_vars

\* the records of the log as a reader gets them
LogRecords ==
    IF ordersFile # None /\ ordersFile[1].intact THEN ordersFile[1].orders ELSE <<>>

(***************************************************************************)
(* C15: the order log is append-only.  After any sequence of place_order   *)
(* requests handled one at a time the log holds exactly one record for     *)
(* every request answered with success, in request order, also when a read *)
(* of the existing log failed.                                             *)
(***************************************************************************)
C15_AppendOnly == NoOrderUnderWay => LogRecords = placed

(***************************************************************************)
(* C16: when two concurrent place_order requests are both answered with    *)
(* success, the log holds both orders, however their reads and writes of   *)
(* the log interleave.                                                     *)
(***************************************************************************)
C16_BothOrdersKept ==
    (NoOrderUnderWay /\ ~logReadFault) =>
        \A i \in 1..Len(placed) : placed[i] \in ToSet(LogRecords)

(***************************************************************************)
(* C20: a place_order request whose cart, store or pickup code is missing  *)
(* or empty is answered 400 'Missing required order fields.', carries no   *)
(* order id, builds no order and leaves the order log as it was.           *)
(***************************************************************************)
C20_MissingFieldsRejected ==
    [][\A w \in Workers :
          (/\ orderPc[w] \in {"idle", "done"}
           /\ <<orderReq[w], orderResp[w]>> # <<orderReq'[w], orderResp'[w]>>
           /\ \/ orderReq'[w][1].cart = <<>>
              \/ orderReq'[w][1].store = None
              \/ orderReq'[w][1].pickup_code \in {None, Some("")})
          => /\ orderResp'[w] = Some(OrderRejected)
             /\ orderPc'[w] = "done"
             /\ ordersFile' = ordersFile
             /\ orderCount' = orderCount
             /\ placed' = placed]_vars

\* a request without a pickup code has been rejected by a worker that placed an
\* order before, and the log still holds that order
C20_Witness ==
    \E w \in Workers :
        /\ orderPc[w] = "done"
        /\ orderReq[w] = Some(OrderBody(<<sSkuP1>>, Some("Store A"), None))
        /\ orderResp[w] = Some(OrderRejected)
        /\ Len(placed) = 1
        /\ LogRecords = placed
        /\ \A v \in Workers : orderPc[v] \in {"idle", "done"}


(***************************************************************************)
(* JSON text, as a sequence of tokens: what json.dump writes and what      *)
(* json.load / json.loads read.                                            *)
(***************************************************************************)
TokLBrace == [t |-> "{"]
TokRBrace == [t |-> "}"]
TokLBracket == [t |-> "["]
TokRBracket == [t |-> "]"]
TokComma == [t |-> ","]
TokColon == [t |-> ":"]
TokStr(s) == [t |-> "str", s |-> s]
TokNum(n) == [t |-> "num", n |-> n]
TokNull == [t |-> "null"]

RECURSIVE JsonDump(_)
RECURSIVE DumpItems(_)
RECURSIVE DumpMembers(_)
DumpItems(items) ==
    IF items = <<>> THEN <<>>
    ELSE JsonDump(Head(items))
         \o (IF Tail(items) = <<>> THEN <<>> ELSE <<TokComma>> \o DumpItems(Tail(items)))
DumpMembers(entries) ==
    IF entries = <<>> THEN <<>>
    ELSE <<TokStr(Head(entries).k), TokColon>> \o JsonDump(Head(entries).v)
         \o (IF Tail(entries) = <<>> THEN <<>> ELSE <<TokComma>> \o DumpMembers(Tail(entries)))

\* a dump that leaves the content of every container out
JsonDumpShallow(v) ==
    IF v.t = "dict" THEN <<TokLBrace, TokRBrace>>
    ELSE IF v.t = "list" THEN <<TokLBracket, TokRBracket>>
    ELSE IF v.t = "str" THEN <<TokStr(v.s)>>
    ELSE IF v.t = "num" THEN <<TokNum(v.n)>>
    ELSE <<TokNull>>
JsonDump(v) ==
    IF v.t = "dict" THEN <<TokLBrace>> \o DumpMembers(v.entries) \o <<TokRBrace>>
    ELSE IF v.t = "list" THEN <<TokLBracket>> \o DumpItems(v.items) \o <<TokRBracket>>
    ELSE IF v.t = "str" THEN <<TokStr(v.s)>>
    ELSE IF v.t = "num" THEN <<TokNum(v.n)>>
    ELSE <<TokNull>>

\* d[k] = v on a dict under construction: a repeated key keeps its place and
\* takes the later value
DictPut(entries, k, v) ==
    IF HasKey(entries, k)
    THEN [i \in 1..Len(entries) |-> IF entries[i].k = k THEN KV(k, v) ELSE entries[i]]
    ELSE Append(entries, KV(k, v))

ParseFail == [ok |-> FALSE, val |-> JNull, rest |-> <<>>]
ParseOk(val, rest) == [ok |-> TRUE, val |-> val, rest |-> rest]

RECURSIVE ParseValue(_)
RECURSIVE ParseItems(_, _)
RECURSIVE ParseMembers(_, _)
\* the items of a list, after "[" or ","
ParseItems(toks, acc) ==
    LET v == ParseValue(toks)
    IN  IF ~v.ok \/ v.rest = <<>> THEN ParseFail
        ELSE IF Head(v.rest) = TokComma THEN ParseItems(Tail(v.rest), Append(acc, v.val))
        ELSE IF Head(v.rest) = TokRBracket THEN ParseOk(JList(Append(acc, v.val)), Tail(v.rest))
        ELSE ParseFail
\* the members of an object, after "{" or ","
ParseMembers(toks, acc) ==
    IF Len(toks) < 3 \/ toks[1].t # "str" \/ toks[2] # TokColon THEN ParseFail
    ELSE LET v == ParseValue(SubSeq(toks, 3, Len(toks)))
             acc2 == DictPut(acc, toks[1].s, v.val)
         IN  IF ~v.ok \/ v.rest = <<>> THEN ParseFail
             ELSE IF Head(v.rest) = TokComma THEN ParseMembers(Tail(v.rest), acc2)
             ELSE IF Head(v.rest) = TokRBrace THEN ParseOk(JDict(acc2), Tail(v.rest))
             ELSE ParseFail
ParseValue(toks) ==
    IF toks = <<>> THEN ParseFail
    ELSE LET h == Head(toks)
             r == Tail(toks)
         IN  IF h.t = "str" THEN ParseOk(JStr(h.s), r)
             ELSE IF h.t = "num" THEN ParseOk(JNum(h.n), r)
             ELSE IF h.t = "null" THEN ParseOk(JNull, r)
             ELSE IF h = TokLBracket
             THEN IF r # <<>> /\ Head(r) = TokRBracket THEN ParseOk(JList(<<>>), Tail(r))
                  ELSE ParseItems(r, <<>>)
             ELSE IF h = TokLBrace
             THEN IF r # <<>> /\ Head(r) = TokRBrace THEN ParseOk(JDict(<<>>), Tail(r))
                  ELSE ParseMembers(r, <<>>)
             ELSE ParseFail

\* json.loads: the value of a text that is one JSON value, None when it raises
json_loads(toks) ==
    LET v == ParseValue(toks)
    IN  IF v.ok /\ v.rest = <<>> THEN Some(v.val) ELSE None

(***************************************************************************)
(* The stored profile: POST, GET and DELETE /profile                       *)
(***************************************************************************)
\* the file that main.py creates at start when there is none
DefaultProfile ==
    JDict(<<KV(KeyAllergies, JList(<<>>)), KV(KeyPreferences, JList(<<>>))>>)
docNut ==
    JDict(<<KV(KeyAllergies, JStrList(<<sNut>>)), KV(KeyPreferences, JStrList(<<sVegan>>))>>)
docSoy ==
    JDict(<<KV(KeyAllergies, JStrList(<<sSoy, sEgg>>)), KV(KeyPreferences, JList(<<>>))>>)

\* the two documents as the service writes them
docNutText ==
    <<TokLBrace, TokStr(KeyAllergies), TokColon, TokLBracket, TokStr(sNut), TokRBracket,
      TokComma, TokStr(KeyPreferences), TokColon, TokLBracket, TokStr(sVegan), TokRBracket,
      TokRBrace>>
docSoyText ==
    <<TokLBrace, TokStr(KeyAllergies), TokColon, TokLBracket, TokStr(sSoy), TokComma,
      TokStr(sEgg), TokRBracket, TokComma, TokStr(KeyPreferences), TokColon, TokLBracket,
      TokRBracket, TokRBrace>>

\* what the text-to-profile service does with the prompt: it raises, or it
\* returns a text: JSON tokens (body), possibly inside a Markdown fence,
\* possibly with prose around them, possibly with ' for "
Raised == [raised |-> TRUE, fenced |-> FALSE, prose |-> FALSE, single |-> FALSE, body |-> <<>>]
Text(fenced, prose, single, body) ==
    [raised |-> FALSE, fenced |-> fenced, prose |-> prose, single |-> single, body |-> body]
ReplyEmpty == Text(FALSE, FALSE, FALSE, <<>>)
ReplyFencedEmpty == Text(TRUE, FALSE, FALSE, <<>>)
ReplyNoJson == Text(FALSE, TRUE, FALSE, <<>>)
ReplyBadJson ==
    Text(FALSE, FALSE, FALSE,
         <<TokLBrace, TokStr(KeyAllergies), TokColon, TokLBracket, TokStr(sSoy), TokRBrace>>)
ReplyFenced == Text(TRUE, FALSE, FALSE, docNutText)
ReplyInProse == Text(FALSE, TRUE, FALSE, docSoyText)
ReplySingleQuoted == Text(FALSE, FALSE, TRUE, docNutText)
GeminiReplies ==
    { Raised, ReplyEmpty, ReplyFencedEmpty, ReplyNoJson, ReplyBadJson,
      ReplyFenced, ReplyInProse, ReplySingleQuoted }

ParseError(msg) == [profile |-> None, error |-> Some(msg)]
Parsed(profile) == [profile |-> Some(profile), error |-> None]

\* re.search(r'\{[\s\S]*\}', text): from the first { to the last }, None when
\* there is no such span
BraceSpan(toks) ==
    LET opens == {i \in 1..Len(toks) : toks[i] = TokLBrace}
        closes == {i \in 1..Len(toks) : toks[i] = TokRBrace}
    IN  IF opens = {} \/ closes = {} \/ Max(closes) < Min(opens) THEN None
        ELSE Some(SubSeq(toks, Min(opens), Max(closes)))

\* a service that answers every failure with the default profile
parse_profile_lenient(reply) ==
    IF reply.raised \/ reply.single \/ reply.prose \/ json_loads(reply.body) = None
    THEN Parsed(DefaultProfile)
    ELSE Parsed(json_loads(reply.body)[1])
\* (profile, error) of parse_profile_with_gemini, for what the service did
parse_profile_with_gemini(reply) ==
    IF reply.raised THEN ParseError("Gemini API call failed")
    ELSE IF reply.body = <<>> /\ ~reply.prose
    THEN ParseError("Gemini returned an empty response")
    ELSE IF ~reply.prose /\ ~reply.single /\ json_loads(reply.body) # None
    THEN Parsed(json_loads(reply.body)[1])
    ELSE LET json_str == BraceSpan(reply.body)
         IN  IF json_str = None THEN ParseError("Could not parse JSON from Gemini response")
             ELSE IF json_loads(json_str[1]) # None THEN Parsed(json_loads(json_str[1])[1])
             ELSE ParseError("Could not parse JSON from Gemini response")

UserInputs == {None, Some(""), Some("no nuts please")}

PostMissing == [status |-> 400, error |-> Some("Missing userInput"), profile |-> None]
PostParseFailed(msg) == [status |-> 500, error |-> Some(msg), profile |-> None]
PostSaveFailed == [status |-> 500, error |-> Some("Failed to save profile"), profile |-> None]
PostOk(profile) == [status |-> 200, error |-> None, profile |-> Some(profile)]
GetNotFound == [status |-> 404, error |-> Some("No profile found"), profile |-> None]
GetFailed == [status |-> 500, error |-> Some("json.load"), profile |-> None]
GetOk(profile) == [status |-> 200, error |-> None, profile |-> Some(profile)]
DeleteOk == [status |-> 200, success |-> TRUE]
DeleteFailed == [status |-> 500, success |-> FALSE]

\* the state after start: the profile file exists (lines 24-26 create it)
InitProfile ==
    /\ profileFile = Some(JsonDump(DefaultProfile))
    /\ postPc = "idle" /\ postReq = None /\ postResp = None
    /\ getResp = None /\ deleteResp = None /\ stored = None /\ lastOp = "none"
    /\ ServicesIdle
    /\ OrdersIdle
    /\ ExtractIdle
    /\ CartIdle
    /\ PickupIdle

\* POST /profile up to the point where the file is opened: the 400 answer, the
\* call of the service and the 500 answer for its failure
PostBegin ==
    /\ postPc = "idle"
    /\ \E user_input \in UserInputs :
          IF ~Truthy(user_input)
          THEN /\ postReq' = Some([userInput |-> user_input, reply |-> None])
               /\ postResp' = Some(PostMissing)
               /\ UNCHANGED postPc
          ELSE \E reply \in GeminiReplies :
                  LET r == parse_profile_with_gemini(reply)
                  IN  /\ postReq' = Some([userInput |-> user_input, reply |-> Some(reply)])
                      /\ IF r.error # None
                         THEN /\ postResp' = Some(PostParseFailed(r.error[1]))
                              /\ UNCHANGED postPc
                         ELSE /\ postResp' = None
                              /\ postPc' = "open"
    /\ lastOp' = "PostBegin"
    /\ UNCHANGED <<profileFile, getResp, deleteResp, stored>>
    /\ UNCHANGED <<extractVars, cartVars, pickupVars, orderVars, serviceVars>>

\* open(PROFILE_PATH, "w"): empties (or creates) the file, or raises
PostOpen ==
    /\ postPc = "open"
    /\ \E opened \in BOOLEAN :
          IF opened
          THEN /\ profileFile' = Some(<<>>)
               /\ postPc' = "dump"
               /\ UNCHANGED postResp
          ELSE /\ postResp' = Some(PostSaveFailed)
               /\ postPc' = "idle"
               /\ UNCHANGED profileFile
    /\ lastOp' = "PostOpen"
    /\ UNCHANGED <<postReq, getResp, deleteResp, stored>>
    /\ UNCHANGED <<extractVars, cartVars, pickupVars, orderVars, serviceVars>>

\* json.dump(profile, f, indent=2), close, and the answer.  A file that was
\* removed while it was open stays removed.
PostDump ==
    /\ postPc = "dump"
    /\ LET profile == parse_profile_with_gemini(postReq[1].reply[1]).profile[1]
       IN  /\ profileFile' = IF profileFile = None THEN None ELSE Some(JsonDump(profile))
           /\ postResp' = Some(PostOk(profile))
           /\ stored' = Some(profile)
    /\ postPc' = "idle"
    /\ lastOp' = "PostDump"
    /\ UNCHANGED <<postReq, getResp, deleteResp>>
    /\ UNCHANGED <<extractVars, cartVars, pickupVars, orderVars, serviceVars>>

\* GET /profile
GetProfile ==
    /\ getResp' =
          IF profileFile = None THEN Some(GetNotFound)
          ELSE IF json_loads(profileFile[1]) = None THEN Some(GetFailed)
          ELSE Some(GetOk(json_loads(profileFile[1])[1]))
    /\ lastOp' = "GetProfile"
    /\ UNCHANGED <<profileFile, postPc, postReq, postResp, deleteResp, stored>>
    /\ UNCHANGED <<extractVars, cartVars, pickupVars, orderVars, serviceVars>>

\* DELETE /profile.  os.remove of a file that a writer holds open removes it
\* or raises, depending on the platform.
DeleteProfile ==
    /\ \E removed \in BOOLEAN :
          /\ ~removed => (profileFile # None /\ postPc = "dump")
          /\ IF removed
             THEN /\ profileFile' = None
                  /\ deleteResp' = Some(DeleteOk)
                  /\ stored' = None
             ELSE /\ deleteResp' = Some(DeleteFailed)
                  /\ UNCHANGED <<profileFile, stored>>
    /\ lastOp' = "DeleteProfile"
    /\ UNCHANGED <<postPc, postReq, postResp, getResp>>
    /\ UNCHANGED <<extractVars, cartVars, pickupVars, orderVars, serviceVars>>

\* requests handled one at a time: GET and DELETE run when no POST is under way
GetProfileSerial == postPc = "idle" /\ GetProfile
DeleteProfileSerial == postPc = "idle" /\ DeleteProfile

NextProfileSerial ==
    PostBegin \/ PostOpen \/ PostDump \/ GetProfileSerial \/ DeleteProfileSerial
NextProfile == PostBegin \/ PostOpen \/ PostDump \/ GetProfile \/ DeleteProfile

SpecProfileSerial == InitProfile /\ [][NextProfileSerial]_vars
SpecProfile == InitProfile /\ [][NextProfile]_vars

(***************************************************************************)
(* C17: a GET /profile that runs while a POST /profile writes the file     *)
(* gets the whole old or the whole new profile: it is never answered with  *)
(* an error, and the profile it returns is the start-up profile or one     *)
(* that a POST produced.                                                   *)
(***************************************************************************)
C17_ReaderSeesWholeProfile ==
    getResp # None =>
        \/ getResp = Some(GetNotFound) /\ deleteResp = Some(DeleteOk)
        \/ getResp[1].status = 200 /\ getResp[1].profile[1] \in {DefaultProfile, docNut, docSoy}

C19_FailedPostKeepsProfile ==
    [][(/\ lastOp' = "PostBegin"
        /\ postPc = "idle"
        /\ \/ postReq'[1].userInput \in {None, Some("")}
           \/ postReq'[1].reply \in
                 {Some(Raised), Some(ReplyEmpty), Some(ReplyFencedEmpty),
                  Some(ReplyNoJson), Some(ReplyBadJson)})
       => /\ postResp' # None
          /\ postResp'[1].status =
                (IF postReq'[1].userInput \in {None, Some("")} THEN 400 ELSE 500)
          /\ postResp'[1].profile = None
          /\ postPc' = "idle"
          /\ profileFile' = profileFile
          /\ stored' = stored]_vars

\* the service raised while a profile was stored, and the file still holds it
C19_Witness ==
    /\ lastOp = "PostBegin"
    /\ postReq # None
    /\ postReq[1].reply = Some(Raised)
    /\ postResp = Some(PostParseFailed("Gemini API call failed"))
    /\ stored = Some(docNut)
    /\ profileFile = Some(JsonDump(docNut))


(***************************************************************************)
(* The QR scanner service (src/dhruvi/qr_scanner_main.py)                  *)
(*                                                                         *)
(* Grams are counted in tenths and prices in cents, so that every number   *)
(* of the product database is an integer.                                  *)
(***************************************************************************)
UpperChar(c) ==
    IF \E i \in 1..Len(LowerChars) : LowerChars[i] = c
    THEN UpperChars[CHOOSE i \in 1..Len(LowerChars) : LowerChars[i] = c]
    ELSE c
Upper(s) == [i \in 1..Len(s) |-> UpperChar(s[i])]

sPeanuts == <<"p","e","a","n","u","t","s">>
sPeanutsCap == <<"P","e","a","n","u","t","s">>
sTreeNuts == <<"t","r","e","e","_","n","u","t","s">>
sDairy == <<"d","a","i","r","y">>
sDairyCap == <<"D","a","i","r","y">>

WalmartId(d) == <<"W","A","L","M","A","R","T","_","0","0",d>>

Nutrition(calories, total_fat, saturated_fat, protein, carbs) ==
    [calories |-> calories, total_fat |-> total_fat, saturated_fat |-> saturated_fat,
     protein |-> protein, carbs |-> carbs]
DbProduct(id, name, brand, category, nutrition, allergens, dietary_flags, price) ==
    [id |-> id, name |-> name, brand |-> brand, category |-> category,
     nutrition |-> nutrition, allergens |-> allergens, dietary_flags |-> dietary_flags,
     price |-> price]

\* the product database, in the order of the dict
PRODUCTS_DATABASE ==
    << KV(WalmartId("1"),
          DbProduct(WalmartId("1"), "Jif Creamy Peanut Butter", "Jif", "Pantry",
                    Nutrition(190, 160, 30, 70, 70), <<sPeanuts>>,
                    <<"high_fat", "high_calories">>, 399)),
       KV(WalmartId("2"),
          DbProduct(WalmartId("2"), "SunButter Sunflower Seed Butter", "SunButter", "Pantry",
                    Nutrition(200, 180, 20, 70, 60), <<>>, <<"high_fat">>, 499)),
       KV(WalmartId("3"),
          DbProduct(WalmartId("3"), "Silk Almond Milk Unsweetened", "Silk", "Dairy",
                    Nutrition(30, 25, 0, 10, 10), <<sTreeNuts>>,
                    <<"low_fat", "low_calories">>, 349)),
       KV(WalmartId("4"),
          DbProduct(WalmartId("4"), "Land O'Lakes Butter", "Land O'Lakes", "Dairy",
                    Nutrition(100, 110, 70, 0, 0), <<sDairy>>,
                    <<"high_fat", "high_saturated_fat">>, 499)),
       KV(WalmartId("5"),
          DbProduct(WalmartId("5"), "Earth Balance Vegan Buttery Spread", "Earth Balance",
                    "Dairy", Nutrition(100, 110, 35, 0, 0), <<sSoy>>, <<"high_fat">>, 599)) >>

\* the user profiles the service starts with
UserJohn ==
    [id |-> "user_001", name |-> "John Doe", allergies |-> <<sPeanuts, sTreeNuts>>,
     dietary_preferences |-> <<"low_fat", "low_calories">>,
     restrictions |-> <<"high_saturated_fat">>,
     preferred_brands |-> <<"Silk", "SunButter">>, avoid_brands |-> <<"Jif">>,
     budget_preference |-> "moderate"]
UserJane ==
    [id |-> "user_002", name |-> "Jane Smith", allergies |-> <<sDairy>>,
     dietary_preferences |-> <<"vegan", "low_fat">>, restrictions |-> <<"high_fat">>,
     preferred_brands |-> <<"Silk", "Earth Balance">>, avoid_brands |-> <<"Land O'Lakes">>,
     budget_preference |-> "budget"]

\* bodies of /update-user-profile
ProfileUpdates ==
    { [allergies |-> <<sPeanutsCap, sPeanuts, sDairyCap>>],
      [restrictions |-> <<>>, dietary_preferences |-> <<>>],
      [budget_preference |-> "budget", avoid_brands |-> <<>>] }

\* dict.update
DictUpdate(d, u) ==
    [f \in (DOMAIN d) \cup (DOMAIN u) |-> IF f \in DOMAIN u THEN u[f] ELSE d[f]]

UserIds == {"user_001", "user_002", "user_404"}
QrCodes ==
    { WalmartId("1"), WalmartId("2"), WalmartId("3"), WalmartId("4"),
      <<" ">> \o WalmartId("5") \o <<"\n">>, WalmartId("9") }

\* if x in [...] for allergen in allergies: the allergies that the product holds
SameAllergenExact(allergen, allergens) == allergen \in ToSet(allergens)
SameAllergen(allergen, allergens) ==
    Lower(allergen) \in {Lower(a) : a \in ToSet(allergens)}

MaxAlternatives == 3

analyze_product_safety(product, user_profile) ==
    LET allergyHits == SelectSeq(user_profile.allergies,
                                 LAMBDA a : SameAllergen(a, product.allergens))
        restrictionHits == SelectSeq(user_profile.restrictions,
                                     LAMBDA r : r \in ToSet(product.dietary_flags))
        brandHit == product.brand \in ToSet(user_profile.avoid_brands)
        \* total_fat > 5
        fatHit == /\ "low_fat" \in ToSet(user_profile.dietary_preferences)
                  /\ product.nutrition.total_fat > 50
        calHit == /\ "low_calories" \in ToSet(user_profile.dietary_preferences)
                  /\ product.nutrition.calories > 150
        warnings ==
            [i \in 1..Len(allergyHits) |-> [kind |-> "CONTAINS", what |-> Upper(allergyHits[i])]]
            \o [i \in 1..Len(restrictionHits) |-> [kind |-> "HIGH", what |-> restrictionHits[i]]]
            \o (IF brandHit THEN <<[kind |-> "AVOIDED BRAND", what |-> product.brand]>> ELSE <<>>)
            \o (IF fatHit THEN <<[kind |-> "HIGH FAT", what |-> product.nutrition.total_fat]>>
                ELSE <<>>)
            \o (IF calHit THEN <<[kind |-> "HIGH CALORIES", what |-> product.nutrition.calories]>>
                ELSE <<>>)
        score == 100 - 50 * Len(allergyHits) - 20 * Len(restrictionHits)
                 - (IF brandHit THEN 15 ELSE 0) - (IF fatHit THEN 10 ELSE 0)
                 - (IF calHit THEN 10 ELSE 0)
        safety_score == IF score < 0 THEN 0 ELSE score
    IN  [is_safe |-> safety_score >= 70, safety_score |-> safety_score,
         warnings |-> warnings, issues_found |-> Len(warnings)]

\* the relevance of an alternative to the scanned product
Relevance(alt_product, product, user_profile) ==
    (IF alt_product.category = product.category THEN 30 ELSE 0)
    + (IF alt_product.brand \in ToSet(user_profile.preferred_brands) THEN 20 ELSE 0)
    + (IF user_profile.budget_preference = "budget" /\ alt_product.price < product.price
       THEN 15 ELSE 0)
    + (IF /\ "low_fat" \in ToSet(user_profile.dietary_preferences)
          /\ alt_product.nutrition.total_fat < product.nutrition.total_fat
       THEN 10 ELSE 0)

Alternative(alt_product, product, user_profile) ==
    [product_id |-> alt_product.id, name |-> alt_product.name, brand |-> alt_product.brand,
     price |-> alt_product.price,
     safety_score |-> analyze_product_safety(alt_product, user_profile).safety_score,
     relevance_score |-> Relevance(alt_product, product, user_profile)]

\* list.sort(key=relevance_score, reverse=True): stable, highest first
RECURSIVE SortByRelevance(_)
InsertByRelevance(x, sorted) ==
    LET before == SelectSeq(sorted, LAMBDA y : y.relevance_score >= x.relevance_score)
        after == SelectSeq(sorted, LAMBDA y : y.relevance_score < x.relevance_score)
    IN  before \o <<x>> \o after
SortByRelevance(list) ==
    IF list = <<>> THEN <<>>
    ELSE InsertByRelevance(list[Len(list)], SortByRelevance(SubSeq(list, 1, Len(list) - 1)))

\* list[:n]
Prefix(list, n) ==
    IF n >= 0 THEN SubSeq(list, 1, IF n < Len(list) THEN n ELSE Len(list))
    ELSE SubSeq(list, 1, IF Len(list) + n > 0 THEN Len(list) + n ELSE 0)

\* is the alternative kept: it is not the scanned product and it is safe enough
KeptAlternativeAny(product_id, alt_product, product, user_profile) ==
    product_id # product.id
KeptAlternative(product_id, alt_product, product, user_profile) ==
    /\ product_id # product.id
    /\ analyze_product_safety(alt_product, user_profile).is_safe
    /\ analyze_product_safety(alt_product, user_profile).safety_score >= 80

find_alternatives(product, user_profile, max_alternatives) ==
    LET kept == SelectSeq(PRODUCTS_DATABASE,
                          LAMBDA e : KeptAlternative(e.k, e.v, product, user_profile))
        alternatives == [i \in 1..Len(kept) |-> Alternative(kept[i].v, product, user_profile)]
    IN  Prefix(SortByRelevance(alternatives), max_alternatives)

analyze_nutrition(product, user_profile) ==
    LET low_fat == "low_fat" \in ToSet(user_profile.dietary_preferences)
        low_cal == "low_calories" \in ToSet(user_profile.dietary_preferences)
        fat == low_fat /\ product.nutrition.total_fat > 50
        sat == low_fat /\ product.nutrition.saturated_fat > 30
        cal == low_cal /\ product.nutrition.calories > 150
    IN  [overall_health_score |->
             100 - (IF fat THEN 20 ELSE 0) - (IF sat THEN 15 ELSE 0) - (IF cal THEN 15 ELSE 0),
         recommendations |->
             (IF fat THEN <<"Consider lower-fat alternatives">> ELSE <<>>)
             \o (IF sat THEN <<"High in saturated fat">> ELSE <<>>)
             \o (IF cal THEN <<"High calorie content">> ELSE <<>>),
         nutrition_highlights |->
             [fat_content |-> product.nutrition.total_fat,
              calories |-> product.nutrition.calories,
              protein |-> product.nutrition.protein]]

RECURSIVE SumPrices(_)
SumPrices(alts) == IF alts = <<>> THEN 0 ELSE Head(alts).price + SumPrices(Tail(alts))

DbHas(id) == \E i \in 1..Len(PRODUCTS_DATABASE) : PRODUCTS_DATABASE[i].k = id
DbGet(id) == PRODUCTS_DATABASE[CHOOSE i \in 1..Len(PRODUCTS_DATABASE) : PRODUCTS_DATABASE[i].k = id].v

\* an HTTPException raised inside the try block is caught by `except Exception`
\* and raised again with status 500
QrHttpError(status, detail) == [status |-> status, detail |-> detail]
QrWrapped(inner) ==
    QrHttpError(500, <<"Error processing QR code", inner.status, inner.detail>>)

scan_qr_code(request, profiles) ==
    LET product_id == Strip(request.qr_code_data)
    IN  IF request.user_id \notin DOMAIN profiles
        THEN QrWrapped(QrHttpError(404, "User profile not found"))
        ELSE IF ~DbHas(product_id)
        THEN QrWrapped(QrHttpError(404, "Product not found in database"))
        ELSE LET user_profile == profiles[request.user_id]
                 product == DbGet(product_id)
                 safety_analysis == analyze_product_safety(product, user_profile)
                 alternatives == IF ~safety_analysis.is_safe
                                 THEN find_alternatives(product, user_profile, MaxAlternatives)
                                 ELSE <<>>
             IN  [status |-> 200,
                  product |-> product,
                  safety_analysis |-> safety_analysis,
                  nutrition_analysis |-> analyze_nutrition(product, user_profile),
                  alternatives |-> alternatives,
                  price_comparison |->
                      [current_price |-> product.price,
                       \* the average, as the sum and the number of prices
                       average_alternative_price |-> <<SumPrices(alternatives), Len(alternatives)>>,
                       budget_friendly |-> \E i \in 1..Len(alternatives) :
                                              alternatives[i].price < product.price],
                  recommendation |-> IF safety_analysis.is_safe THEN "SAFE TO CONSUME"
                                     ELSE "AVOID - Check alternatives below"]

InitScanner ==
    /\ USER_PROFILES = [u \in {"user_001", "user_002"} |->
                           IF u = "user_001" THEN UserJohn ELSE UserJane]
    /\ qrReq = None /\ qrResp = None /\ updateResp = None
    /\ ScanIdle
    /\ DetectorIdle
    /\ SessionIdle
    /\ ExtractIdle
    /\ CartIdle
    /\ PickupIdle
    /\ OrdersIdle
    /\ ProfileIdle

\* POST /scan-qr/; the profile the request was answered for is kept with the
\* request for the properties below
ScanQrCode ==
    /\ \E user_id \in UserIds, qr \in QrCodes :
          LET request == [qr_code_data |-> qr, user_id |-> user_id]
          IN  /\ qrReq' = Some([qr_code_data |-> qr, user_id |-> user_id,
                                user_profile |-> IF user_id \in DOMAIN USER_PROFILES
                                                 THEN Some(USER_PROFILES[user_id]) ELSE None])
              /\ qrResp' = Some(scan_qr_code(request, USER_PROFILES))
    /\ UNCHANGED <<USER_PROFILES, updateResp>>
    /\ UNCHANGED <<extractVars, cartVars, pickupVars, orderVars, profileVars, scanVars, detectorVars, sessionVars>>

\* POST /update-user-profile/{user_id}
UpdateUserProfile ==
    /\ \E user_id \in UserIds, profile_update \in ProfileUpdates :
          IF user_id \notin DOMAIN USER_PROFILES
          THEN /\ updateResp' = Some(QrHttpError(404, "User profile not found"))
               /\ UNCHANGED USER_PROFILES
          ELSE LET updated == DictUpdate(USER_PROFILES[user_id], profile_update)
               IN  /\ USER_PROFILES' = [USER_PROFILES EXCEPT ![user_id] = updated]
                   /\ updateResp' = Some([status |-> 200, user_profile |-> updated])
    /\ UNCHANGED <<qrReq, qrResp>>
    /\ UNCHANGED <<extractVars, cartVars, pickupVars, orderVars, profileVars, scanVars, detectorVars, sessionVars>>

NextScanner == ScanQrCode \/ UpdateUserProfile

SpecScanner == InitScanner /\ [][NextScanner]_vars

(***************************************************************************)
(* C21: scan_qr_code answers 404 'User profile not found' for a user id    *)
(* that is no known profile and 404 'Product not found in database' for a  *)
(* product id that is not in the database; neither is answered with 500.   *)
(***************************************************************************)
C21_NotFoundIs404 ==
    qrResp # None =>
        /\ qrReq[1].user_id \notin DOMAIN USER_PROFILES =>
              qrResp[1] = QrHttpError(404, "User profile not found")
        /\ (qrReq[1].user_id \in DOMAIN USER_PROFILES /\ ~DbHas(Strip(qrReq[1].qr_code_data))) =>
              qrResp[1] = QrHttpError(404, "Product not found in database")

QrAnswered == qrResp # None /\ qrResp[1].status = 200

\* does the database product hold an allergy of the profile, whatever the case?
HoldsAllergyOf(product, user_profile) ==
    \E i \in 1..Len(user_profile.allergies), j \in 1..Len(product.allergens) :
        Lower(user_profile.allergies[i]) = Lower(product.allergens[j])

(***************************************************************************)
(* C25: whenever a profile allergy equals a product allergen, whatever the *)
(* case, the analysis has is_safe = false and a warning that names the     *)
(* allergen, and scan_qr_code recommends AVOID; is_safe holds exactly when *)
(* the safety score is at least 70, and the score is within 0..100.        *)
(***************************************************************************)
C25_AllergenIsUnsafe ==
    QrAnswered =>
        LET product == qrResp[1].product
            user_profile == qrReq[1].user_profile[1]
            analysis == qrResp[1].safety_analysis
        IN  /\ \A i \in 1..Len(user_profile.allergies), j \in 1..Len(product.allergens) :
                  Lower(user_profile.allergies[i]) = Lower(product.allergens[j]) =>
                      /\ ~analysis.is_safe
                      /\ \E w \in 1..Len(analysis.warnings) :
                            /\ analysis.warnings[w].kind = "CONTAINS"
                            /\ Lower(analysis.warnings[w].what) = Lower(product.allergens[j])
                      /\ qrResp[1].recommendation = "AVOID - Check alternatives below"
            /\ analysis.is_safe <=> analysis.safety_score >= 70
            /\ analysis.safety_score \in 0..100

\* the profile writes "Dairy", the product "dairy"; the deductions of another
\* scan add up to more than 100
C25_Witness ==
    /\ QrAnswered
    /\ qrReq[1].user_profile[1].allergies = <<sPeanutsCap, sPeanuts, sDairyCap>>
    /\ qrResp[1].product.allergens = <<sDairy>>
    /\ ~qrResp[1].safety_analysis.is_safe
    /\ qrResp[1].safety_analysis.warnings[1] = [kind |-> "CONTAINS", what |-> Upper(sDairy)]

C25_WitnessFloor ==
    /\ QrAnswered
    /\ qrResp[1].product.allergens = <<sPeanuts>>
    /\ Len(qrResp[1].safety_analysis.warnings) = 5
    /\ qrResp[1].safety_analysis.safety_score = 0

(***************************************************************************)
(* C26: the alternatives are at most max_alternatives products, never the  *)
(* scanned product, each with a safety score of at least 80 and holding no *)
(* allergy of the user, in order of non-increasing relevance score; and    *)
(* scan_qr_code returns alternatives only for a product that is not safe.  *)
(***************************************************************************)
C26_SafeAlternatives ==
    QrAnswered =>
        LET alts == qrResp[1].alternatives
            user_profile == qrReq[1].user_profile[1]
        IN  /\ Len(alts) <= MaxAlternatives
            /\ \A i \in 1..Len(alts) :
                  /\ alts[i].product_id # qrResp[1].product.id
                  /\ DbHas(alts[i].product_id)
                  /\ alts[i].safety_score >= 80
                  /\ ~HoldsAllergyOf(DbGet(alts[i].product_id), user_profile)
            /\ \A i, j \in 1..Len(alts) : i < j => alts[i].relevance_score >= alts[j].relevance_score
            /\ qrResp[1].safety_analysis.is_safe => alts = <<>>

\* four products are safe enough for the user, the three most relevant are
\* returned, in an order that is not the order of the database
C26_Witness ==
    /\ QrAnswered
    /\ qrResp[1].product.id = WalmartId("4")
    /\ ~qrResp[1].safety_analysis.is_safe
    /\ [i \in 1..Len(qrResp[1].alternatives) |-> qrResp[1].alternatives[i].product_id]
          = <<WalmartId("3"), WalmartId("5"), WalmartId("1")>>
    /\ qrResp[1].alternatives[1].relevance_score > qrResp[1].alternatives[3].relevance_score


(***************************************************************************)
(* Further properties of /pickup-suggestion.                               *)
(***************************************************************************)
\* a catalog in which two products have the same name, and carts of SKUs
prodPbLarge == Product(<<"P","b">>, sSkuP3, <<sNut>>)
TwinCatalog == <<prodPb, prodJam, prodPbLarge>>
SkuItems == {JStr(sSkuP1), JStr(sSkuP2), JStr(sSkuP3)}

InitPickupTwins ==
    /\ PRODUCTS = TwinCatalog
    /\ STORES \in StoreFiles
    /\ pickupReq \in {Some(c) : c \in SeqsUpTo(SkuItems, MaxItems + 1)}
    /\ pickupResp = None
    /\ pickupPrev = None
    /\ extractOneLog = None
    /\ ExtractIdle
    /\ CartIdle
    /\ OrdersIdle
    /\ ProfileIdle
    /\ ServicesIdle

SpecPickupTwins == InitPickupTwins /\ [][NextPickup]_vars

(***************************************************************************)
(* C22: for every missing item, nearest_stores_for_missing names the first *)
(* store of the file, other than the chosen store, that stocks the item's  *)
(* SKU, and it has no entry for an item that no other store stocks.        *)
(***************************************************************************)
C22_NearestStoreForMissing ==
    PickupAnswered =>
        LET r == pickupResp[1]
        IN  \A i \in 1..Len(r.missing_items) :
                LET sku == r.missing_items[i]
                    name == ProductBySku(PRODUCTS, sku).name
                    others == {k \in 1..Len(STORES) :
                                  /\ Some(STORES[k].name) # r.store
                                  /\ sku \in STORES[k].availableSKUs}
                IN  IF others = {}
                    THEN name \notin DOMAIN r.nearest_stores_for_missing
                    ELSE /\ name \in DOMAIN r.nearest_stores_for_missing
                         /\ r.nearest_stores_for_missing[name] = STORES[Min(others)].name

\* how often x occurs in a sequence
Occurrences(seq, x) == Cardinality({i \in 1..Len(seq) : seq[i] = x})

sSoyCap == <<"S","o","y">>
sTea == <<"t","e","a">>
sOat == <<"o","a","t">>
sSkuP4 == <<"P","4">>
sSkuP5 == <<"P","5">>
sSkuP9 == <<"P","9">>
prodTofu == Product(sTofu, sSkuP2, <<sSoyCap>>)
prodTea == Product(sTea, sSkuP4, <<>>)
prodOat == Product(sOat, sSkuP5, <<>>)

\* utils/products.json as the request finds it: the empty list written at
\* start, or a catalog
ScanCatalogs == { <<>>, <<prodMix, prodPb, prodTofu, prodTea, prodOat>> }

\* profile_001.json as an earlier run left it
docCaps ==
    JDict(<<KV(KeyAllergies, JStrList(<<sEggCap, sNutCap>>)), KV(KeyPreferences, JList(<<>>))>>)
docNested ==
    JDict(<<KV(KeyUser, JDict(<<KV(KeyAllergies, JStrList(<<sNut>>))>>))>>)
docNullAllergies ==
    JDict(<<KV(KeyAllergies, JNull), KV(KeyPreferences, JList(<<>>))>>)
ScanProfiles == {DefaultProfile, docCaps, docNested, docNullAllergies}

ScanSkus == {None, Some(<<>>), Some(sSkuP1), Some(sSkuP2), Some(sSkuP3), Some(sSkuP9)}

ScanError(status, msg) == [status |-> status, error |-> Some(msg), result |-> None]
ScanOk(result) == [status |-> 200, error |-> None, result |-> Some(result)]
ScanMissingSku == ScanError(400, "Missing SKU")
ScanNoProfile == ScanError(404, "No user profile found")
ScanNoProduct == ScanError(404, "Product not found for SKU")
ScanFailed == ScanError(500, "exception")

\* profile.get(key, []): the value of the key, [] without the key
ProfileGet(profile, key) ==
    LET at == {i \in 1..Len(profile.entries) : profile.entries[i].k = key}
    IN  IF at = {} THEN JList(<<>>) ELSE profile.entries[Max(at)].v

\* set(a.lower() for a in value): <<the set>>, or <<>> when it raises
LowerSet(value) ==
    IF value.t = "list"
    THEN IF AllStr(value.items) THEN Some({Lower(value.items[i].s) : i \in 1..Len(value.items)})
         ELSE None
    ELSE IF value.t = "str" THEN Some({<<LowerChar(value.s[i])>> : i \in 1..Len(value.s)})
    ELSE IF value.t = "dict" THEN Some({Lower(value.entries[i].k) : i \in 1..Len(value.entries)})
    ELSE None

\* set(a.lower() for a in product.get("allergens", []))
ProductAllergensExact(product) == ToSet(product.allergens)
ProductAllergens(product) == {Lower(a) : a \in ToSet(product.allergens)}

\* the loop over the catalog that collects the alternatives
RECURSIVE ScanAlternatives(_, _, _, _, _)
ScanAlternatives(products, sku, allergies, i, alternatives) ==
    IF i > Len(products) THEN alternatives
    ELSE IF products[i].sku = sku
    THEN ScanAlternatives(products, sku, allergies, i + 1, alternatives)
    ELSE LET kept == IF allergies \cap ProductAllergens(products[i]) = {}
                     THEN Append(alternatives,
                                 [name |-> products[i].name, sku |-> products[i].sku])
                     ELSE alternatives
         IN  IF Len(kept) >= 2 THEN kept
             ELSE ScanAlternatives(products, sku, allergies, i + 1, kept)

\* scan_qr from the point where profile_001.json is opened
ScanWithProfile(sku, text, products) ==
    IF json_loads(text) = None THEN ScanFailed
    ELSE LET profile == json_loads(text)[1]
         IN  IF profile.t # "dict" THEN ScanFailed
             ELSE LET allergies == LowerSet(ProfileGet(profile, KeyAllergies))
                      preferences == LowerSet(ProfileGet(profile, KeyPreferences))
                  IN  IF allergies = None \/ preferences = None THEN ScanFailed
                      ELSE IF ~IsSku(products, sku) THEN ScanNoProduct
                      ELSE LET product == products[Min({i \in 1..Len(products) :
                                                           products[i].sku = sku})]
                               flagged == allergies[1] \cap ProductAllergens(product)
                           IN  ScanOk([product |-> product,
                                       is_safe |-> flagged = {},
                                       flagged_allergens |-> flagged,
                                       alternatives |->
                                           ScanAlternatives(products, sku, allergies[1],
                                                            1, <<>>)])

\* a handler that takes the start-up profile when there is no profile file
scan_qr_default_profile(sku, file, products) ==
    IF sku = None \/ sku = Some(<<>>) THEN ScanMissingSku
    ELSE ScanWithProfile(sku[1], IF file = None THEN JsonDump(DefaultProfile) ELSE file[1],
                         products)
\* the response of scan_qr for the SKU of the body, profile_001.json and
\* utils/products.json
scan_qr(sku, file, products) ==
    IF sku = None \/ sku = Some(<<>>) THEN ScanMissingSku
    ELSE IF file = None THEN ScanNoProfile
    ELSE ScanWithProfile(sku[1], file[1], products)

\* the state after start, with the files an earlier run left
InitProfileScan ==
    /\ profileFile \in {Some(JsonDump(p)) : p \in ScanProfiles}
    /\ postPc = "idle" /\ postReq = None /\ postResp = None
    /\ getResp = None /\ deleteResp = None /\ stored = None /\ lastOp = "none"
    /\ PRODUCTS \in ScanCatalogs
    /\ STORES = <<>> /\ pickupReq = None /\ pickupResp = None
    /\ pickupPrev = None /\ extractOneLog = None
    /\ ServicesIdle
    /\ OrdersIdle
    /\ ExtractIdle
    /\ CartIdle

\* POST /scan-qr/
ScanQr ==
    /\ \E sku \in ScanSkus :
          /\ scanReq' = Some([sku |-> sku])
          /\ scanResp' = Some(scan_qr(sku, profileFile, PRODUCTS))
    /\ lastOp' = "ScanQr"
    /\ UNCHANGED <<profileFile, postPc, postReq, postResp, getResp, deleteResp, stored>>
    /\ UNCHANGED <<extractVars, cartVars, pickupVars, orderVars, scannerVars, detectorVars, sessionVars>>

ScanQrSerial == postPc = "idle" /\ ScanQr

NextProfileScan ==
    PostBegin \/ PostOpen \/ PostDump \/ GetProfileSerial \/ DeleteProfileSerial
    \/ ScanQrSerial
SpecProfileScan == InitProfileScan /\ [][NextProfileScan]_vars

\* a DELETE was answered and no POST has succeeded since
ProfileDeleted == deleteResp = Some(DeleteOk) /\ stored = None /\ postPc = "idle"

TopAllergies(profile) ==
    UNION { {Lower(e.v.items[j].s) : j \in 1..Len(e.v.items)} :
            e \in {x \in ToSet(profile.entries) : x.k = KeyAllergies /\ x.v.t = "list"} }

\* the profile document is a mapping whose allergies and preferences are lists
\* of strings
PlainProfile(profile) ==
    /\ profile.t = "dict"
    /\ \A e \in ToSet(profile.entries) :
          e.k \in {KeyAllergies, KeyPreferences} => (e.v.t = "list" /\ AllStr(e.v.items))

ScanAnswered == lastOp = "ScanQr" /\ scanResp # None /\ scanResp[1].status = 200

C30_WitnessPosted ==
    /\ ScanAnswered
    /\ stored = Some(docSoy)
    /\ scanReq = Some([sku |-> Some(sSkuP2)])
    /\ scanResp[1].result[1].flagged_allergens = {sSoy}


(***************************************************************************)
(* The allergen detector service (src/dhruvi/main.py)                      *)
(*                                                                         *)
(* upload_image is a coroutine: it gives up control where it awaits (the   *)
(* read of the file and the two calls of the LLM), and other requests run  *)
(* at these points.                                                        *)
(***************************************************************************)
Placeholder == "No image processed yet. Please upload an image first."

ImagePrefix == <<"i","m","a","g","e","/">>
ctPng == <<"i","m","a","g","e","/","p","n","g">>
ctText == <<"t","e","x","t","/","p","l","a","i","n">>
ctImageless == <<"i","m","a","g","e">>

\* an upload: its content type and whether Image.open accepts its bytes
Uploads == [content_type : {ctPng, ctText, ctImageless}, opens : BOOLEAN]

\* what a call of the LLM API ends with
LlmStatusError == [kind |-> "status", code |-> 429, text |-> ""]
LlmRequestError == [kind |-> "network", code |-> 0, text |-> ""]
LlmNoCandidates == [kind |-> "no_candidates", code |-> 200, text |-> ""]
LlmNoParts == [kind |-> "no_parts", code |-> 200, text |-> ""]
LlmNoText == [kind |-> "no_text", code |-> 200, text |-> ""]
LlmText(t) == [kind |-> "text", code |-> 200, text |-> t]
FinalTexts == {"dairy: oat milk", "nuts: seeds"}
FirstReplies ==
    {LlmStatusError, LlmRequestError, LlmNoCandidates, LlmNoParts, LlmNoText, LlmText("nuts")}
FinalReplies ==
    {LlmStatusError, LlmRequestError, LlmNoCandidates, LlmNoParts, LlmNoText}
    \cup {LlmText(t) : t \in FinalTexts}

UploadError(status, detail) == [status |-> status, detail |-> Some(detail), text |-> None]
UploadDone(text) == [status |-> 200, detail |-> None, text |-> Some(text)]
InvalidFileType == UploadError(400, "Invalid file type. Please upload an image.")
CouldNotProcess ==
    UploadError(400, "Could not process image file. It might be corrupted.")
InternalError == UploadError(500, "An internal server error occurred")
NetworkError == UploadError(500, "Network error when calling LLM API")
LlmApiError(code) == UploadError(code, "Error from LLM API")

\* the last three handlers of upload_image: what leaves the try block for an
\* exception raised inside it.  An HTTPException is an Exception.
Caught(raised) ==
    IF raised.detail = Some("httpx.HTTPStatusError") THEN LlmApiError(raised.status)
    ELSE IF raised.detail = Some("httpx.RequestError") THEN NetworkError
    ELSE InternalError
\* what a failed call of the LLM raises inside the try block
RaisedBy(reply) ==
    IF reply.kind = "status" THEN UploadError(reply.code, "httpx.HTTPStatusError")
    ELSE IF reply.kind = "network" THEN UploadError(0, "httpx.RequestError")
    ELSE UploadError(500, "LLM response structure unexpected")

\* lines 264-272: the text that the final reply stores
StoredText(reply) ==
    IF reply.kind = "no_candidates"
    THEN "LLM response structure unexpected: missing candidates in final response."
    ELSE IF reply.kind = "no_parts"
    THEN "LLM response structure unexpected: missing content or parts in final response."
    ELSE IF reply.kind = "no_text" THEN "No text content found in LLM response."
    ELSE reply.text

\* the stored result after the final call of the LLM has ended
StoredAfterCleared(reply, latest) ==
    IF reply.kind \in {"status", "network"} THEN Placeholder ELSE StoredText(reply)
StoredAfter(reply, latest) ==
    IF reply.kind \in {"status", "network"} THEN latest ELSE StoredText(reply)

InitDetector ==
    /\ latest_llm_response = Placeholder
    /\ upPc = [w \in Workers |-> "idle"]
    /\ upReq = [w \in Workers |-> None]
    /\ upResp = [w \in Workers |-> None]
    /\ uploadCount = 0
    /\ completed = <<>>
    /\ allergensResp = None
    /\ ScannerIdle /\ ScanIdle /\ SessionIdle
    /\ ProfileIdle
    /\ OrdersIdle
    /\ ExtractIdle
    /\ CartIdle
    /\ PickupIdle

UploadRequest(file) == [file |-> file, llm_calls |-> 0, final |-> None]

\* POST /upload-image/ up to `await file.read()`: the check of the content type
UploadBegin(w) ==
    /\ upPc[w] = "idle"
    /\ uploadCount < MaxUploads
    /\ uploadCount' = uploadCount + 1
    /\ \E file \in Uploads :
          /\ upReq' = [upReq EXCEPT ![w] = Some(UploadRequest(file))]
          /\ IF ~StartsWith(file.content_type, ImagePrefix)
             THEN /\ upResp' = [upResp EXCEPT ![w] = Some(InvalidFileType)]
                  /\ UNCHANGED upPc
             ELSE /\ upResp' = [upResp EXCEPT ![w] = None]
                  /\ upPc' = [upPc EXCEPT ![w] = "read"]
    /\ UNCHANGED <<latest_llm_response, completed, allergensResp>>
    /\ UNCHANGED <<extractVars, cartVars, pickupVars, orderVars, profileVars>>
    /\ UNCHANGED <<scannerVars, scanVars, sessionVars>>

\* from the read of the file to the first call of the LLM: Image.open, whose
\* IOError becomes an HTTPException(400) raised inside the try block
UploadRead(w) ==
    /\ upPc[w] = "read"
    /\ IF ~upReq[w][1].file.opens
       THEN /\ upResp' = [upResp EXCEPT ![w] = Some(Caught(CouldNotProcess))]
            /\ upPc' = [upPc EXCEPT ![w] = "idle"]
            /\ UNCHANGED upReq
       ELSE /\ upReq' = [upReq EXCEPT ![w] = Some([upReq[w][1] EXCEPT !.llm_calls = 1])]
            /\ upPc' = [upPc EXCEPT ![w] = "first"]
            /\ UNCHANGED upResp
    /\ UNCHANGED <<latest_llm_response, uploadCount, completed, allergensResp>>
    /\ UNCHANGED <<extractVars, cartVars, pickupVars, orderVars, profileVars>>
    /\ UNCHANGED <<scannerVars, scanVars, sessionVars>>

\* the first call of the LLM returns; the search for alternatives, which may
\* raise; the final call of the LLM is sent
UploadFirst(w) ==
    /\ upPc[w] = "first"
    /\ \E reply \in FirstReplies, searched \in BOOLEAN :
          IF reply.kind \in {"status", "network", "no_candidates", "no_parts"}
          THEN /\ upResp' = [upResp EXCEPT ![w] = Some(Caught(RaisedBy(reply)))]
               /\ upPc' = [upPc EXCEPT ![w] = "idle"]
               /\ UNCHANGED upReq
          ELSE IF ~searched
          THEN /\ upResp' = [upResp EXCEPT ![w] = Some(InternalError)]
               /\ upPc' = [upPc EXCEPT ![w] = "idle"]
               /\ UNCHANGED upReq
          ELSE /\ upReq' = [upReq EXCEPT ![w] = Some([upReq[w][1] EXCEPT !.llm_calls = 2])]
               /\ upPc' = [upPc EXCEPT ![w] = "final"]
               /\ UNCHANGED upResp
    /\ UNCHANGED <<latest_llm_response, uploadCount, completed, allergensResp>>
    /\ UNCHANGED <<extractVars, cartVars, pickupVars, orderVars, profileVars>>
    /\ UNCHANGED <<scannerVars, scanVars, sessionVars>>

\* the final call of the LLM returns: the result is stored and the response
\* is built from the stored result
UploadFinal(w) ==
    /\ upPc[w] = "final"
    /\ \E reply \in FinalReplies :
          /\ upReq' = [upReq EXCEPT ![w] = Some([upReq[w][1] EXCEPT !.final = Some(reply)])]
          /\ latest_llm_response' = StoredAfter(reply, latest_llm_response)
          /\ IF reply.kind \in {"status", "network"}
             THEN /\ upResp' = [upResp EXCEPT ![w] = Some(Caught(RaisedBy(reply)))]
                  /\ UNCHANGED completed
             ELSE /\ upResp' = [upResp EXCEPT ![w] = Some(UploadDone(latest_llm_response'))]
                  /\ completed' = Append(completed, StoredText(reply))
    /\ upPc' = [upPc EXCEPT ![w] = "idle"]
    /\ UNCHANGED <<uploadCount, allergensResp>>
    /\ UNCHANGED <<extractVars, cartVars, pickupVars, orderVars, profileVars>>
    /\ UNCHANGED <<scannerVars, scanVars, sessionVars>>

\* GET /get-allergens/
GetAllergens ==
    /\ allergensResp' = Some([status |-> 200, text |-> latest_llm_response,
                              after |-> Len(completed)])
    /\ UNCHANGED <<latest_llm_response, upPc, upReq, upResp, uploadCount, completed>>
    /\ UNCHANGED <<extractVars, cartVars, pickupVars, orderVars, profileVars>>
    /\ UNCHANGED <<scannerVars, scanVars, sessionVars>>

NextDetector ==
    \/ \E w \in Workers : UploadBegin(w) \/ UploadRead(w) \/ UploadFirst(w) \/ UploadFinal(w)
    \/ GetAllergens
SpecDetector == InitDetector /\ [][NextDetector]_vars

(***************************************************************************)
(* C27: /get-allergens/ returns the placeholder until an upload has been   *)
(* answered with 200 and afterwards the text of the upload answered with   *)
(* 200 last; an upload answered with an error leaves the stored result as  *)
(* it was; and a 200 response carries the text generated for its own       *)
(* upload, also when two uploads overlap.                                  *)
(***************************************************************************)
C27_LatestResult ==
    /\ latest_llm_response =
          (IF completed = <<>> THEN Placeholder ELSE completed[Len(completed)])
    /\ allergensResp # None =>
          /\ allergensResp[1].status = 200
          /\ allergensResp[1].text =
                (IF allergensResp[1].after = 0 THEN Placeholder
                 ELSE completed[allergensResp[1].after])
    /\ \A w \in Workers :
          (upResp[w] # None /\ upResp[w][1].status = 200) =>
              /\ upReq[w][1].final # None
              /\ upResp[w][1].text = Some(StoredText(upReq[w][1].final[1]))

\* two uploads overlapped and gave different texts; the one that ended last is
\* what /get-allergens/ returns, and a third upload failed after them
C27_Witness ==
    /\ Len(completed) = 2
    /\ completed[1] # completed[2]
    /\ upResp["w1"] # None /\ upResp["w1"][1].status = 429
    /\ upReq["w1"][1].llm_calls = 2
    /\ upResp["w2"] = Some(UploadDone(completed[2]))
    /\ allergensResp = Some([status |-> 200, text |-> completed[2], after |-> 2])
    /\ latest_llm_response \in FinalTexts

(***************************************************************************)
(* C28: an upload whose content type is not image/* is answered with 400   *)
(* 'Invalid file type', an upload with an image content type whose bytes   *)
(* cannot be opened as an image is answered with 400 'Could not process    *)
(* image file', and for neither is the LLM called.                         *)
(***************************************************************************)
C28_BadInputIs400 ==
    \A w \in Workers :
        (upResp[w] # None /\ upReq[w] # None) =>
            LET file == upReq[w][1].file
            IN  /\ ~StartsWith(file.content_type, ImagePrefix) =>
                      (upResp[w] = Some(InvalidFileType) /\ upReq[w][1].llm_calls = 0)
                /\ (StartsWith(file.content_type, ImagePrefix) /\ ~file.opens) =>
                      (upResp[w] = Some(CouldNotProcess) /\ upReq[w][1].llm_calls = 0)


(***************************************************************************)
(* The Streamlit front-end (src/frontend/client/streamlit_app.py): the     *)
(* session state of the Cart and Pickup tabs.  A click runs the script     *)
(* once, the Cart tab before the Pickup tab.  A profile is present, and    *)
(* every entry of a processed cart is safe, so that the items are put into *)
(* the final cart by the run that processes them.                          *)
(***************************************************************************)
UiItems == {"bread", "milk"}
ShoppingLists == SeqsUpTo(UiItems, MaxItems) \ {<<>>}

\* the final cart after the entries were rendered: each item once
RECURSIVE Rendered(_, _)
Rendered(items, cart) ==
    IF items = <<>> THEN cart
    ELSE Rendered(Tail(items),
                  IF Head(items) \in ToSet(cart) THEN cart ELSE Append(cart, Head(items)))

\* list.pop(idx)
Pop(list, idx) == SubSeq(list, 1, idx - 1) \o SubSeq(list, idx + 1, Len(list))

\* the answers of /pickup-suggestion that the front-end may get with status
\* 200: the store is null when there is no store
Suggestions ==
    [store : {None, Some("Store A"), Some("Store B")}, pickup_code : {"QR-1", "QR-2"}]

InitSession ==
    /\ cart_data = None /\ final_cart = <<>> /\ show_cart_review = FALSE
    /\ pickup_cart = <<>> /\ pickup_data = None /\ pickup_order_placed = FALSE
    /\ order_id = None /\ sentOrder = None
    /\ ScannerIdle /\ ScanIdle /\ DetectorIdle
    /\ ProfileIdle
    /\ OrdersIdle
    /\ ExtractIdle
    /\ CartIdle
    /\ PickupIdle

\* "Build My Smart Cart" / "Generate Smart Cart from Chat": reset_cart_state,
\* the call of /process-cart, and the rendering of the processed cart
BuildCart ==
    /\ \E shopping_items \in ShoppingLists, ok \in BOOLEAN :
          /\ cart_data' = IF ok THEN Some(shopping_items) ELSE None
          /\ final_cart' = IF ok THEN Rendered(shopping_items, <<>>) ELSE <<>>
    /\ show_cart_review' = FALSE
    /\ pickup_cart' = <<>>
    /\ UNCHANGED <<pickup_data, pickup_order_placed, order_id, sentOrder>>
    /\ UNCHANGED <<extractVars, cartVars, pickupVars, orderVars, profileVars>>
    /\ UNCHANGED <<scannerVars, scanVars, detectorVars>>

\* "Go to Cart"
GoToCart ==
    /\ cart_data # None
    /\ ~show_cart_review
    /\ show_cart_review' = TRUE
    /\ UNCHANGED <<cart_data, final_cart, pickup_cart, pickup_data, pickup_order_placed,
                   order_id, sentOrder>>
    /\ UNCHANGED <<extractVars, cartVars, pickupVars, orderVars, profileVars>>
    /\ UNCHANGED <<scannerVars, scanVars, detectorVars>>

\* "Remove" of one row of the cart review
RemoveItem ==
    /\ cart_data # None
    /\ show_cart_review
    /\ \E idx \in 1..Len(final_cart) : final_cart' = Pop(final_cart, idx)
    /\ UNCHANGED <<cart_data, show_cart_review, pickup_cart, pickup_data,
                   pickup_order_placed, order_id, sentOrder>>
    /\ UNCHANGED <<extractVars, cartVars, pickupVars, orderVars, profileVars>>
    /\ UNCHANGED <<scannerVars, scanVars, detectorVars>>

\* "Confirm Cart & Proceed to Pickup"
ConfirmCart ==
    /\ cart_data # None
    /\ show_cart_review
    /\ final_cart # <<>>
    /\ pickup_cart' = final_cart
    /\ UNCHANGED <<cart_data, final_cart, show_cart_review, pickup_data,
                   pickup_order_placed, order_id, sentOrder>>
    /\ UNCHANGED <<extractVars, cartVars, pickupVars, orderVars, profileVars>>
    /\ UNCHANGED <<scannerVars, scanVars, detectorVars>>

\* "Get Pickup Suggestion"; the suggestion is kept with the cart that was sent
GetPickupSuggestion ==
    /\ ~pickup_order_placed
    /\ pickup_cart # <<>>
    /\ \E ok \in BOOLEAN, data \in Suggestions :
          IF ok
          THEN /\ pickup_data' =
                     Some([store |-> data.store, pickup_code |-> data.pickup_code,
                           cart |-> pickup_cart])
               /\ pickup_order_placed' = FALSE
          ELSE UNCHANGED <<pickup_data, pickup_order_placed>>
    /\ UNCHANGED <<cart_data, final_cart, show_cart_review, pickup_cart, order_id, sentOrder>>
    /\ UNCHANGED <<extractVars, cartVars, pickupVars, orderVars, profileVars>>
    /\ UNCHANGED <<scannerVars, scanVars, detectorVars>>

\* "Place Pickup Order"
PlacePickupOrder ==
    /\ ~pickup_order_placed
    /\ pickup_cart # <<>>
    /\ pickup_data # None
    /\ pickup_data[1].store # None
    /\ \E ok \in BOOLEAN :
          IF ok
          THEN /\ pickup_order_placed' = TRUE
               /\ order_id' = Some("order")
               /\ sentOrder' = Some([cart |-> pickup_cart,
                                     store |-> pickup_data[1].store[1],
                                     pickup_code |-> pickup_data[1].pickup_code,
                                     suggested_for |-> pickup_data[1].cart])
          ELSE UNCHANGED <<pickup_order_placed, order_id, sentOrder>>
    /\ UNCHANGED <<cart_data, final_cart, show_cart_review, pickup_cart, pickup_data>>
    /\ UNCHANGED <<extractVars, cartVars, pickupVars, orderVars, profileVars>>
    /\ UNCHANGED <<scannerVars, scanVars, detectorVars>>

\* "Start New Order"
StartNewOrder ==
    /\ pickup_order_placed
    /\ pickup_order_placed' = FALSE
    /\ pickup_data' = None
    /\ pickup_cart' = <<>>
    /\ final_cart' = <<>>
    /\ cart_data' = None
    /\ show_cart_review' = FALSE
    /\ order_id' = None
    /\ UNCHANGED sentOrder
    /\ UNCHANGED <<extractVars, cartVars, pickupVars, orderVars, profileVars>>
    /\ UNCHANGED <<scannerVars, scanVars, detectorVars>>

NextSession ==
    \/ BuildCart \/ GoToCart \/ RemoveItem \/ ConfirmCart
    \/ GetPickupSuggestion \/ PlacePickupOrder \/ StartNewOrder
SpecSession == InitSession /\ [][NextSession]_vars

(***************************************************************************)
(* C24: the pickup workflow of the front-end is ordered.  The store and    *)
(* the pickup code of a placed order come from a suggestion that was       *)
(* requested for the confirmed cart that is ordered, never from one for an *)
(* earlier cart, and while the order is placed the pickup cart is not      *)
(* empty.                                                                  *)
(***************************************************************************)
C24_OrderedWorkflow ==
    /\ sentOrder # None => sentOrder[1].suggested_for = sentOrder[1].cart
    /\ pickup_order_placed => pickup_cart # <<>>

====
